---- MODULE Spec2Model ----
(***************************************************************************)
(* Model of album-art: the playback state store (services/state.py), the   *)
(* polling engine (services/poller.py), the artwork resolver               *)
(* (sources/itunes.py) and the adapters with the queue prefetch            *)
(* (sources/sonos.py, sources/spotify.py).                                 *)
(*                                                                         *)
(* An Optional[TrackInfo] is a sequence of length at most one: None is     *)
(* <<>> and a snapshot t is <<t>>.                                          *)
(***************************************************************************)
EXTENDS Integers, Sequences, FiniteSets, TLC

\* ------------------------------------------------------------------------
\* Bounds of the model
\* ------------------------------------------------------------------------
MaxSubs == 2
MaxRun == 3
MaxClock == 1
MaxSources == 2
MaxStamp == 2
MaxTasks == 3
MaxInflight == 2
MaxArtTicks == 2

MaxQueue == 2
MaxPayloads == 3

\* ------------------------------------------------------------------------
\* Values
\* ------------------------------------------------------------------------
None == <<>>

Some(t) == <<t>>

SourceNames == {"sonos", "spotify"}

Titles == {"Song A", "Song B"}

Artists == {"Artist X", "Artist Y"}

Albums == {"Album P", "Album Q"}

\* The fields of a TrackInfo that _tracks_equal does not read, drawn together.
Variants ==
    { [position_ms |-> 0, album_art_url |-> "art1", timestamp |-> 1],
      [position_ms |-> 1000, album_art_url |-> "art1", timestamp |-> 1],
      [position_ms |-> 0, album_art_url |-> "art2", timestamp |-> 2] }

TrackInfo(src, ti, ar, al, pl, pos, art, ts) ==
    [source |-> src, title |-> ti, artist |-> ar, album |-> al,
     is_playing |-> pl, position_ms |-> pos, album_art_url |-> art,
     timestamp |-> ts]

AllTracks ==
    { TrackInfo(s, ti, ar, al, pl, v.position_ms, v.album_art_url, v.timestamp) :
        s \in SourceNames, ti \in Titles, ar \in Artists, al \in Albums,
        pl \in BOOLEAN, v \in Variants }

\* Number of the five identity fields in which t departs from the base track
Departures(t) ==
    (IF t.source = "sonos" THEN 0 ELSE 1) + (IF t.title = "Song A" THEN 0 ELSE 1)
    + (IF t.artist = "Artist X" THEN 0 ELSE 1) + (IF t.album = "Album P" THEN 0 ELSE 1)
    + (IF t.is_playing THEN 0 ELSE 1)

\* The snapshots fed to update(): the base track and every track that departs
\* from it in one identity field, each in every variant.
Tracks == { t \in AllTracks : Departures(t) <= 1 }

TrackOpt == {None} \cup { Some(t) : t \in Tracks }

Callbacks == {"cb1", "cb2"}

\* ------------------------------------------------------------------------
\* State
\* ------------------------------------------------------------------------
VARIABLES
    current_track,            \* PlaybackState.current_track
    last_updated,             \* PlaybackState.last_updated
    subscribers,              \* PlaybackState._subscribers
    consecutive_none_count,   \* PlaybackState._consecutive_none_count
    now,                      \* the clock read by datetime.now()
    upd,                      \* the update() call in flight
    last_arg,                 \* argument of the most recent update() call
    call_seq,                 \* parity of the number of update() calls
    none_run,                 \* length of the run of update(None) calls ending now
    run_held,                 \* a track was held when that run began
    reset_from,               \* counter value found by the latest update(snapshot)
    update_raised             \* the most recent update() call ended by raising

VARIABLES
    sources,                  \* Poller._sources, with each adapter's behaviour this tick
    poll_pc,                  \* position of _poll_sources: idle, gather, done
    tasks,                    \* the coroutines handed to asyncio.gather (source indices)
    task_state,               \* per task: created, running, done
    results,                  \* asyncio.gather's result list
    call_count,               \* get_current_track calls per source in this tick
    poll_result               \* what _poll_sources returned

VARIABLES
    running,                  \* Poller._running
    task,                     \* Poller._task: 0 for None, else the polling task
    loops,                    \* the polling tasks created so far, per task id
    stopping,                 \* the stop() calls suspended at "await self._task"
    stopped                   \* a stop() has returned and start() was not called since it began

VARIABLES
    prefer_itunes,            \* settings.artwork.prefer_itunes
    artwork_cache,            \* itunes._artwork_cache: key -> [url, reason]
    rate_limit_until,         \* itunes._rate_limit_until
    art_now,                  \* the clock read by time.time()
    inflight,                 \* the get_itunes_artwork calls suspended at "await client.get"
    returned                  \* the get_itunes_artwork call that returned last

VARIABLES
    queue_pc,                 \* position of _get_enhanced_queue_items: idle, gather, returned
    queue,                    \* what device.get_queue returned
    queue_items,              \* the list of dicts built from the queue
    lookups,                  \* per item, its lookup_itunes task and what its lookup returned
    queue_result              \* what _get_enhanced_queue_items returned

VARIABLES
    sonos,                    \* SonosSource: _device, _room_name, _discovery_attempted
    spotify,                  \* SpotifySource: _client
    calls                     \* per polling task, the adapter queries of its tick

VARIABLES
    sse_queue                 \* every payload put on the queue of the SSE stream by on_update

pvars == <<sources, poll_pc, tasks, task_state, results, call_count, poll_result>>

svars == <<current_track, last_updated, subscribers, consecutive_none_count,
           now, upd, last_arg, call_seq, none_run, run_held, reset_from,
           update_raised>>

lvars == <<running, task, loops, stopping, stopped>>

avars == <<prefer_itunes, artwork_cache, rate_limit_until, art_now, inflight, returned>>

qvars == <<queue_pc, queue, queue_items, lookups, queue_result>>

dvars == <<sonos, spotify, calls>>

vars == <<svars, pvars, lvars, avars, qvars, dvars, sse_queue>>

\* What the actions of one part of the program leave alone
beyond_store == <<pvars, lvars, avars, qvars, dvars, sse_queue>>

beyond_poll == <<svars, lvars, avars, qvars, dvars, sse_queue>>

beyond_loop == <<svars, pvars, avars, qvars, dvars, sse_queue>>

beyond_artwork == <<svars, pvars, lvars, qvars, dvars, sse_queue>>

beyond_queue == <<svars, pvars, lvars, dvars, sse_queue>>

beyond_adapters == <<svars, pvars, avars, qvars, sse_queue>>

beyond_stream == <<pvars, lvars, avars, qvars, dvars>>

none_threshold == 2

IdleUpd == [pc |-> "idle", track |-> None, round |-> <<>>, invoked |-> <<>>]

\* ------------------------------------------------------------------------
\* PlaybackState
\* ------------------------------------------------------------------------
\* Variant: dataclass equality, every field compared
tracks_equal_all_fields(a, b) == a = b

tracks_equal(a, b) ==
    IF a = None /\ b = None THEN TRUE
    ELSE IF a = None \/ b = None THEN FALSE
    ELSE /\ a[1].source = b[1].source
         /\ a[1].title = b[1].title
         /\ a[1].artist = b[1].artist
         /\ a[1].album = b[1].album
         /\ a[1].is_playing = b[1].is_playing

\* list.remove: drops the first occurrence
RemoveFirst(s, x) ==
    LET i == CHOOSE k \in 1..Len(s) : s[k] = x /\ \A j \in 1..(k - 1) : s[j] # x
    IN  [k \in 1..(Len(s) - 1) |-> IF k < i THEN s[k] ELSE s[k + 1]]

InList(s, x) == \E k \in 1..Len(s) : s[k] = x

subscribe(cb) ==
    /\ Len(subscribers) < MaxSubs
    /\ subscribers' = Append(subscribers, cb)
    /\ UNCHANGED <<current_track, last_updated, consecutive_none_count, now, upd,
                   last_arg, call_seq, none_run, run_held, reset_from, update_raised>>
    /\ UNCHANGED beyond_store

unsubscribe(cb) ==
    /\ subscribers' = IF InList(subscribers, cb)
                      THEN RemoveFirst(subscribers, cb)
                      ELSE subscribers
    /\ UNCHANGED <<current_track, last_updated, consecutive_none_count, now, upd,
                   last_arg, call_seq, none_run, run_held, reset_from, update_raised>>
    /\ UNCHANGED beyond_store

\* Variant: the else branch does not reset the counter
CountAfter_no_reset(track) ==
    IF track = None /\ current_track # None
    THEN consecutive_none_count + 1
    ELSE consecutive_none_count

\* The counter after the grace-period branch of update()
CountAfter(track) ==
    IF track = None /\ current_track # None
    THEN consecutive_none_count + 1
    ELSE 0

\* Variant: the threshold compared with <= instead of <
InGrace_inclusive(track) ==
    /\ track = None
    /\ current_track # None
    /\ consecutive_none_count + 1 <= none_threshold

\* update() returns from inside the grace period
InGrace(track) ==
    /\ track = None
    /\ current_track # None
    /\ consecutive_none_count + 1 < none_threshold

\* update() goes on to store the track and notify
Accepted(track) ==
    /\ ~InGrace(track)
    /\ ~tracks_equal(current_track, track)

\* update(track) up to its await: the counter, the equality check, the store,
\* and the list of _safe_notify coroutines built from _subscribers.
update(track) ==
    /\ upd.pc = "idle"
    /\ consecutive_none_count' = CountAfter(track)
    /\ IF Accepted(track)
       THEN /\ current_track' = track
            /\ last_updated' = now
            /\ upd' = [pc |-> "notify", track |-> track,
                       round |-> subscribers, invoked |-> <<>>]
       ELSE UNCHANGED <<current_track, last_updated, upd>>
    /\ last_arg' = track
    /\ call_seq' = 1 - call_seq
    /\ none_run' = IF track = None
                   THEN (IF none_run < MaxRun THEN none_run + 1 ELSE none_run)
                   ELSE 0
    /\ run_held' = IF track = None
                   THEN (IF none_run = 0 THEN current_track # None ELSE run_held)
                   ELSE FALSE
    /\ reset_from' = IF track = None THEN reset_from ELSE consecutive_none_count
    /\ update_raised' = FALSE
    /\ UNCHANGED <<subscribers, now>>
    /\ UNCHANGED beyond_store

\* Variant: the callbacks are awaited without a guard, so a callback that
\* raises ends update() there and then
safe_notify_unguarded(raised) ==
    /\ upd.pc = "notify"
    /\ Len(upd.invoked) < Len(upd.round)
    /\ IF raised
       THEN upd' = IdleUpd /\ update_raised' = TRUE
       ELSE /\ upd' = [upd EXCEPT !.invoked =
                        Append(@, [callback |-> upd.round[Len(upd.invoked) + 1],
                                   track |-> upd.track,
                                   raised |-> raised])]
            /\ UNCHANGED update_raised
    /\ UNCHANGED <<current_track, last_updated, subscribers,
                   consecutive_none_count, now,
                   last_arg, call_seq, none_run, run_held, reset_from>>
    /\ UNCHANGED beyond_store

\* One _safe_notify coroutine of the round runs: callback(track), any
\* exception of the callback is swallowed.
safe_notify(raised) ==
    /\ upd.pc = "notify"
    /\ Len(upd.invoked) < Len(upd.round)
    /\ upd' = [upd EXCEPT !.invoked =
                 Append(@, [callback |-> upd.round[Len(upd.invoked) + 1],
                            track |-> upd.track,
                            raised |-> raised])]
    /\ UNCHANGED <<current_track, last_updated, subscribers,
                   consecutive_none_count, now,
                   last_arg, call_seq, none_run, run_held, reset_from,
                   update_raised>>
    /\ UNCHANGED beyond_store

\* Variant: update() returns as soon as the first coroutine has completed
update_return_first_completed ==
    /\ upd.pc = "notify"
    /\ Len(upd.invoked) >= 1 \/ Len(upd.round) = 0
    /\ upd' = IdleUpd
    /\ UNCHANGED <<current_track, last_updated, subscribers,
                   consecutive_none_count, now,
                   last_arg, call_seq, none_run, run_held, reset_from,
                   update_raised>>
    /\ UNCHANGED beyond_store

\* asyncio.gather has collected every coroutine of the round: update() returns
update_return ==
    /\ upd.pc = "notify"
    /\ Len(upd.invoked) = Len(upd.round)
    /\ upd' = IdleUpd
    /\ UNCHANGED <<current_track, last_updated, subscribers,
                   consecutive_none_count, now,
                   last_arg, call_seq, none_run, run_held, reset_from,
                   update_raised>>
    /\ UNCHANGED beyond_store

Tick ==
    /\ now < MaxClock
    /\ now' = now + 1
    /\ UNCHANGED <<current_track, last_updated, subscribers,
                   consecutive_none_count, upd,
                   last_arg, call_seq, none_run, run_held, reset_from,
                   update_raised>>
    /\ UNCHANGED beyond_store

\* ------------------------------------------------------------------------
\* Poller._poll_sources
\* ------------------------------------------------------------------------
ReturnNone == [kind |-> "return", value |-> None]

Raise == [kind |-> "raise", value |-> None]

Pending == [kind |-> "pending", value |-> None]

\* The awaited call of the adapter never comes back
Hang == [kind |-> "hang", value |-> None]

\* What the backing service of an adapter reports when asked for the current
\* track: the title (Sonos "title", Spotify item "name") and whether it plays
Reports == { [title |-> ti, playing |-> pl] : ti \in {"", "Song A"}, pl \in BOOLEAN }

\* SonosSource.get_current_track on a report: `if not title: return None`
sonos_get_current_track(report, ts) ==
    IF report.title = "" THEN None
    ELSE Some(TrackInfo("sonos", report.title, "Artist X", "Album P",
                        report.playing, 0, "art1", ts))

\* SpotifySource.get_current_track on a playback with an item:
\* title = item.get("name", "Unknown Track")
spotify_get_current_track(report, ts) ==
    Some(TrackInfo("spotify", report.title, "Artist X", "Album P",
                   report.playing, 0, "art1", ts))

\* What an adapter returns for the reports of its service
Built(name) ==
    { IF name = "sonos" THEN sonos_get_current_track(r, ts)
                        ELSE spotify_get_current_track(r, ts) :
      r \in Reports, ts \in 1..MaxStamp }

\* The snapshots an adapter builds: source is the adapter's name
SourceTracks(name) ==
    { TrackInfo(name, "Song A", "Artist X", "Album P", pl, 0, "art1", ts) :
        pl \in BOOLEAN, ts \in 1..MaxStamp }

\* What get_current_track of an adapter does in a tick: raise, None, a
\* snapshot, or no return at all
Outcomes(name) ==
    {Raise, ReturnNone, Hang}
    \cup { [kind |-> "return", value |-> Some(t)] : t \in SourceTracks(name) }

\* A MusicSource with its behaviour in one tick
Adapters ==
    UNION { { [name |-> n, is_available |-> FALSE, outcome |-> ReturnNone] }
            \cup { [name |-> n, is_available |-> TRUE, outcome |-> o] : o \in Outcomes(n) }
            : n \in SourceNames }

SourceLists == UNION { [1..n -> Adapters] : n \in 0..MaxSources }

NoResult == [raised |-> FALSE, value |-> None, from |-> 0]

Indices(s) == [i \in 1..Len(s) |-> i]

\* Variant: the task list is built without the availability filter
IsPolled_unfiltered(src) == TRUE

\* `if source.is_available` of the task list
IsPolled(src) == src.is_available

\* tasks = [source.get_current_track() for source in self._sources if source.is_available]
AvailableTasks(srcs) == SelectSeq(Indices(srcs), LAMBDA i : IsPolled(srcs[i]))

\* Variant: gather without return_exceptions propagates the first exception
GatherRaises_propagate(res) == \E k \in 1..Len(res) : res[k].kind = "raise"

\* asyncio.gather(*tasks, return_exceptions=True): exceptions are results
GatherRaises(res) == FALSE

\* tracks = [r for r in results if isinstance(r, TrackInfo)], each with the
\* index of the source it came from (the identity of the object)
IsTrackInfo(r) == r.kind = "return" /\ r.value # None

CollectTracks(tsk, res) ==
    LET items == [k \in 1..Len(res) |-> [track |-> res[k].value, from |-> tsk[k], ok |-> IsTrackInfo(res[k])]]
        kept == SelectSeq(items, LAMBDA x : x.ok)
    IN  [k \in 1..Len(kept) |-> [track |-> kept[k].track[1], from |-> kept[k].from]]

\* playing_tracks = [t for t in tracks if t.is_playing]
PlayingTracks(trks) == SelectSeq(trks, LAMBDA x : x.track.is_playing)

\* Variant: the first playing track is returned, whatever its source
PreferSpotify_first(playing) == playing[1]

\* for t in playing_tracks: if t.source == "spotify": return t
\* return playing_tracks[0]
PreferSpotify(playing) ==
    IF \E k \in 1..Len(playing) : playing[k].track.source = "spotify"
    THEN playing[CHOOSE k \in 1..Len(playing) :
                    /\ playing[k].track.source = "spotify"
                    /\ \A j \in 1..(k - 1) : playing[j].track.source # "spotify"]
    ELSE playing[1]

\* max(tracks, key=lambda t: t.timestamp): the first of the maximal items
RECURSIVE MaxFrom(_, _, _)
MaxFrom(trks, k, best) ==
    IF k > Len(trks) THEN best
    ELSE MaxFrom(trks, k + 1,
                 IF trks[k].track.timestamp > best.track.timestamp THEN trks[k] ELSE best)

\* Variant: the last of the maximal items (ties go to the later adapter)
MostRecent_last(trks) ==
    trks[CHOOSE k \in 1..Len(trks) :
            /\ \A j \in 1..Len(trks) : trks[j].track.timestamp <= trks[k].track.timestamp
            /\ \A j \in (k + 1)..Len(trks) : trks[j].track.timestamp < trks[k].track.timestamp]

MostRecent(trks) == MaxFrom(trks, 2, trks[1])

\* Variant: the most recent track is returned, playing or not
SelectTrack_most_recent(trks) ==
    IF trks = <<>> THEN NoResult
    ELSE LET win == MaxFrom(trks, 2, trks[1])
         IN  [raised |-> FALSE, value |-> Some(win.track), from |-> win.from]

\* The selection of _poll_sources on the collected tracks
SelectTrack(trks) ==
    IF trks = <<>> THEN NoResult
    ELSE LET playing == PlayingTracks(trks)
             win == IF playing # <<>> THEN PreferSpotify(playing) ELSE MostRecent(trks)
         IN  [raised |-> FALSE, value |-> Some(win.track), from |-> win.from]

\* Variant: a tick in which any adapter failed yields no track
PollOutcome_abort_on_failure(tsk, res) ==
    IF \E k \in 1..Len(res) : res[k].kind = "raise"
    THEN NoResult
    ELSE SelectTrack(CollectTracks(tsk, res))

\* _poll_sources after the gather: what it returns (or that it raised)
PollOutcome(tsk, res) ==
    IF GatherRaises(res)
    THEN [raised |-> TRUE, value |-> None, from |-> 0]
    ELSE SelectTrack(CollectTracks(tsk, res))

\* _poll_sources on a list of sources whose tasks have all completed
PollSources(srcs) ==
    LET tsk == AvailableTasks(srcs)
    IN  IF tsk = <<>> THEN NoResult
        ELSE PollOutcome(tsk, [k \in 1..Len(tsk) |-> srcs[tsk[k]].outcome])

\* _poll_sources is called: the availability filter and the creation of the tasks
poll_sources_begin(srcs) ==
    /\ poll_pc = "idle"
    /\ sources' = srcs
    /\ call_count' = [i \in 1..Len(srcs) |-> 0]
    /\ tasks' = AvailableTasks(srcs)
    /\ task_state' = [k \in 1..Len(tasks') |-> "created"]
    /\ results' = [k \in 1..Len(tasks') |-> Pending]
    /\ IF tasks' = <<>>
       THEN poll_pc' = "done" /\ poll_result' = NoResult
       ELSE poll_pc' = "gather" /\ poll_result' = NoResult
    /\ UNCHANGED beyond_poll

\* Variant: the adapters are awaited one after the other
adapter_start_sequential(k) ==
    /\ poll_pc = "gather"
    /\ k \in 1..Len(tasks)
    /\ task_state[k] = "created"
    /\ \A j \in 1..(k - 1) : task_state[j] = "done"
    /\ task_state' = [task_state EXCEPT ![k] = "running"]
    /\ call_count' = [call_count EXCEPT ![tasks[k]] = @ + 1]
    /\ UNCHANGED <<sources, poll_pc, tasks, results, poll_result>>
    /\ UNCHANGED beyond_poll

\* The event loop starts a task of the gather: get_current_track begins
adapter_start(k) ==
    /\ poll_pc = "gather"
    /\ k \in 1..Len(tasks)
    /\ task_state[k] = "created"
    /\ \A j \in 1..(k - 1) : task_state[j] # "created"
    /\ task_state' = [task_state EXCEPT ![k] = "running"]
    /\ call_count' = [call_count EXCEPT ![tasks[k]] = @ + 1]
    /\ UNCHANGED <<sources, poll_pc, tasks, results, poll_result>>
    /\ UNCHANGED beyond_poll

\* A running get_current_track returns or raises; nothing in the poller or in
\* the adapters ends a call that does not come back by itself
adapter_finish(k) ==
    /\ poll_pc = "gather"
    /\ k \in 1..Len(tasks)
    /\ task_state[k] = "running"
    /\ sources[tasks[k]].outcome # Hang
    /\ task_state' = [task_state EXCEPT ![k] = "done"]
    /\ results' = [results EXCEPT ![k] = sources[tasks[k]].outcome]
    /\ UNCHANGED <<sources, poll_pc, tasks, call_count, poll_result>>
    /\ UNCHANGED beyond_poll

\* Every task has completed: the gather returns and the selection runs
poll_sources_end ==
    /\ poll_pc = "gather"
    /\ \A k \in 1..Len(tasks) : task_state[k] = "done"
    /\ poll_result' = PollOutcome(tasks, results)
    /\ poll_pc' = "done"
    /\ UNCHANGED <<sources, tasks, task_state, results, call_count>>
    /\ UNCHANGED beyond_poll

\* The loop comes round: the locals of the finished tick are gone
next_tick ==
    /\ poll_pc = "done"
    /\ sources' = <<>>
    /\ poll_pc' = "idle"
    /\ tasks' = <<>>
    /\ task_state' = <<>>
    /\ results' = <<>>
    /\ call_count' = <<>>
    /\ poll_result' = NoResult
    /\ UNCHANGED beyond_poll

\* ------------------------------------------------------------------------
\* The polling loop (services/poller.py: start, stop, _poll_loop)
\* ------------------------------------------------------------------------
TaskIds == 1..MaxTasks

NoTask == [pc |-> "none", cancel |-> FALSE, error |-> "none", recovered |-> FALSE]

\* A task that has ended: returned, was cancelled, or died of an exception
IsDone(l) == l.pc \in {"finished", "cancelled", "crashed"}

\* A polling loop that can still run a tick
IsLive(l) == l.pc \in {"created", "poll", "update", "sleep"} /\ ~l.cancel

Created == { t \in TaskIds : loops[t].pc # "none" }

\* Poller.start(): a second start while running does nothing; otherwise the
\* flag is set and a new polling task is created and stored in _task.
start ==
    /\ running \/ Cardinality(Created) < MaxTasks
    /\ IF running
       THEN UNCHANGED <<running, task, loops>>
       ELSE /\ running' = TRUE
            /\ task' = Cardinality(Created) + 1
            /\ loops' = [loops EXCEPT ![Cardinality(Created) + 1] =
                            [NoTask EXCEPT !.pc = "created"]]
    /\ stopping' = { [s EXCEPT !.overlapped = TRUE] : s \in stopping }
    /\ stopped' = FALSE
    /\ UNCHANGED beyond_loop

\* Poller.stop() up to its await: the flag is cleared; with a task in _task the
\* task is cancelled and awaited. Awaiting a task that has already ended does
\* not suspend, so _task is cleared in the same step.
stop ==
    /\ running' = FALSE
    /\ IF task = 0
       THEN /\ stopped' = TRUE
            /\ UNCHANGED <<task, loops, stopping>>
       ELSE IF IsDone(loops[task])
       THEN /\ task' = 0
            /\ stopped' = TRUE
            /\ UNCHANGED <<loops, stopping>>
       ELSE /\ loops' = [loops EXCEPT ![task].cancel = TRUE]
            /\ stopping' = stopping \cup {[task |-> task, overlapped |-> FALSE]}
            /\ UNCHANGED <<task, stopped>>
    /\ UNCHANGED beyond_loop

\* Poller.stop() after its await: the awaited task has ended, the
\* CancelledError is swallowed and _task is set to None.
stop_resume(s) ==
    /\ s \in stopping
    /\ IsDone(loops[s.task])
    /\ task' = 0
    /\ stopping' = stopping \ {s}
    /\ stopped' = IF s.overlapped THEN stopped ELSE TRUE
    /\ UNCHANGED <<running, loops>>
    /\ UNCHANGED beyond_loop

\* The cancellation requested by stop() reaches the task at its next step:
\* CancelledError is not an Exception, so the handler of the loop lets it
\* through and the task ends.
deliver_cancel(t) ==
    /\ loops[t].pc \in {"created", "poll", "update", "sleep"}
    /\ loops[t].cancel
    /\ loops' = [loops EXCEPT ![t].pc = "cancelled"]
    /\ UNCHANGED <<running, task, stopping, stopped>>
    /\ UNCHANGED beyond_loop

\* The head of the loop, "while self._running": another tick, or the end
LoopHead(l) ==
    IF running
    THEN [pc |-> "poll", cancel |-> FALSE, error |-> "none",
          recovered |-> l.error # "none"]
    ELSE [l EXCEPT !.pc = "finished"]

\* _poll_loop is scheduled for the first time
poll_loop_enter(t) ==
    /\ loops[t].pc = "created"
    /\ ~loops[t].cancel
    /\ loops' = [loops EXCEPT ![t] = LoopHead(@)]
    /\ UNCHANGED <<running, task, stopping, stopped>>
    /\ UNCHANGED beyond_loop

\* asyncio.sleep(interval) is over
sleep_done(t) ==
    /\ loops[t].pc = "sleep"
    /\ ~loops[t].cancel
    /\ loops' = [loops EXCEPT ![t] = LoopHead(@)]
    /\ UNCHANGED <<running, task, stopping, stopped>>
    /\ UNCHANGED beyond_loop

\* Variant: the tick has no exception handler, an exception ends the task
tick_failed_unhandled(t, stage) ==
    loops' = [loops EXCEPT ![t].pc = "crashed", ![t].error = stage]

\* "except Exception": the error is logged and the loop goes on to its sleep
tick_failed(t, stage) ==
    loops' = [loops EXCEPT ![t].pc = "sleep", ![t].error = stage]

\* "await self._poll_sources()" is over: it returned a result, with which
\* playback_state.update is called, or it raised.
tick_poll_sources(t, raised) ==
    /\ loops[t].pc = "poll"
    /\ ~loops[t].cancel
    /\ IF raised
       THEN tick_failed(t, "poll")
       ELSE loops' = [loops EXCEPT ![t].pc = "update"]
    /\ UNCHANGED <<running, task, stopping, stopped>>
    /\ UNCHANGED beyond_loop

\* Variant: the loop goes back to its head without sleeping
tick_update_without_sleep(t, raised) ==
    /\ loops[t].pc = "update"
    /\ ~loops[t].cancel
    /\ IF raised
       THEN tick_failed(t, "update")
       ELSE loops' = [loops EXCEPT ![t] = LoopHead(@)]
    /\ UNCHANGED <<running, task, stopping, stopped>>
    /\ UNCHANGED beyond_loop

\* "await playback_state.update(track)" is over: it returned or it raised
tick_update(t, raised) ==
    /\ loops[t].pc = "update"
    /\ ~loops[t].cancel
    /\ IF raised
       THEN tick_failed(t, "update")
       ELSE loops' = [loops EXCEPT ![t].pc = "sleep"]
    /\ UNCHANGED <<running, task, stopping, stopped>>
    /\ UNCHANGED beyond_loop

InitLoop ==
    /\ running = FALSE
    /\ task = 0
    /\ loops = [t \in TaskIds |-> NoTask]
    /\ stopping = {}
    /\ stopped = FALSE

NextLoop ==
    \/ start
    \/ stop
    \/ \E t \in TaskIds, o \in BOOLEAN : stop_resume([task |-> t, overlapped |-> o])
    \/ \E t \in TaskIds : deliver_cancel(t)
    \/ \E t \in TaskIds : poll_loop_enter(t)
    \/ \E t \in TaskIds : sleep_done(t)
    \/ \E t \in TaskIds, raised \in BOOLEAN : tick_poll_sources(t, raised)
    \/ \E t \in TaskIds, raised \in BOOLEAN : tick_update(t, raised)

\* ------------------------------------------------------------------------
\* The artwork resolver (sources/itunes.py). A str is a sequence of
\* one-character strings; a URL is a sequence of segments, the size token
\* being one segment, and None for "no URL".
\* ------------------------------------------------------------------------
backoff == 60

itunes_size == 1200

Upper == <<"A", "B", "C", "D", "E", "F", "G", "H", "I", "J", "K", "L", "M",
           "N", "O", "P", "Q", "R", "S", "T", "U", "V", "W", "X", "Y", "Z">>

Lower == <<"a", "b", "c", "d", "e", "f", "g", "h", "i", "j", "k", "l", "m",
           "n", "o", "p", "q", "r", "s", "t", "u", "v", "w", "x", "y", "z">>

\* str.lower()
lower(str) ==
    [i \in 1..Len(str) |->
        IF \E n \in 1..Len(Upper) : Upper[n] = str[i]
        THEN Lower[CHOOSE n \in 1..Len(Upper) : Upper[n] = str[i]]
        ELSE str[i]]

IsSpace(c) == c = " "

\* str.strip()
strip(str) ==
    LET kept == { i \in 1..Len(str) : ~IsSpace(str[i]) }
    IN  IF kept = {} THEN <<>>
        ELSE SubSeq(str, CHOOSE i \in kept : \A k \in kept : i <= k,
                         CHOOSE i \in kept : \A k \in kept : i >= k)

\* "sub in str"
Contains(sub, str) ==
    \E i \in 0..(Len(str) - Len(sub)) : SubSeq(str, i + 1, i + Len(sub)) = sub

\* The edition markers of the two patterns
Markers ==
    { <<"e", "d", "i", "t", "i", "o", "n">>,
      <<"d", "e", "l", "u", "x", "e">>,
      <<"r", "e", "m", "a", "s", "t", "e", "r">>,
      <<"b", "o", "n", "u", "s">>,
      <<"a", "n", "n", "i", "v", "e", "r", "s", "a", "r", "y">>,
      <<"v", "e", "r", "s", "i", "o", "n">> }

\* The end of the group opened at i: the first closing bracket after i, or 0
GroupEnd(str, i, close) ==
    LET ends == { j \in (i + 1)..Len(str) : str[j] = close }
    IN  IF ends = {} THEN 0 ELSE CHOOSE j \in ends : \A k \in ends : j <= k

\* The positions where a bracketed group holding a marker opens
MarkedGroups(str, open, close) ==
    { i \in 1..Len(str) :
        /\ str[i] = open
        /\ GroupEnd(str, i, close) # 0
        /\ \E m \in Markers :
              Contains(m, lower(SubSeq(str, i + 1, GroupEnd(str, i, close) - 1))) }

\* The start of the white space run that ends right before position i
RunStart(str, i) ==
    CHOOSE p \in 1..i :
        /\ \A q \in p..(i - 1) : IsSpace(str[q])
        /\ p = 1 \/ ~IsSpace(str[p - 1])

\* re.sub of one pattern: every marked group goes, with the white space
\* before it, from left to right
RECURSIVE RemoveMarked(_, _, _)
RemoveMarked(str, open, close) ==
    LET groups == MarkedGroups(str, open, close)
    IN  IF groups = {} THEN str
        ELSE LET i == CHOOSE g \in groups : \A h \in groups : g <= h
             IN  SubSeq(str, 1, RunStart(str, i) - 1)
                 \o RemoveMarked(SubSeq(str, GroupEnd(str, i, close) + 1, Len(str)),
                                 open, close)

clean_album_name(album) ==
    strip(RemoveMarked(RemoveMarked(album, "(", ")"), "[", "]"))

\* Variant: the key is the two names as given
cache_key_verbatim(artist, album) == artist \o <<"|">> \o album

\* f"{artist}|{album}".lower().strip()
cache_key(artist, album) == strip(lower(artist \o <<"|">> \o album))

\* f"{artist} {clean_album}".strip()
Query(artist, album) == strip(artist \o <<" ">> \o clean_album_name(album))

\* art_url.replace("100x100bb", f"{size}x{size}bb")
HighRes(art_url) ==
    [i \in 1..Len(art_url) |->
        IF art_url[i] = "100x100bb"
        THEN ToString(itunes_size) \o "x" \o ToString(itunes_size) \o "bb"
        ELSE art_url[i]]

\* Variant: a candidate without an artist name is not skipped
Matching_without_artist_test(found, artist, album) ==
    { i \in 1..Len(found) :
        LET result_artist == lower(found[i].artistName)
            result_album == lower(found[i].collectionName)
            artist_lower == lower(artist)
            album_lower == lower(clean_album_name(album))
        IN  /\ result_album # <<>>
            /\ Contains(artist_lower, result_artist) \/ Contains(result_artist, artist_lower)
            /\ Contains(album_lower, result_album) \/ Contains(result_album, album_lower)
            /\ found[i].artworkUrl100 # <<>> }

\* Variant: an album that cleans to nothing matches no candidate
Matching_with_album_only(found, artist, album) ==
    { i \in 1..Len(found) :
        LET result_artist == lower(found[i].artistName)
            result_album == lower(found[i].collectionName)
            artist_lower == lower(artist)
            album_lower == lower(clean_album_name(album))
        IN  /\ result_artist # <<>>
            /\ result_album # <<>>
            /\ album_lower # <<>>
            /\ Contains(artist_lower, result_artist) \/ Contains(result_artist, artist_lower)
            /\ Contains(album_lower, result_album) \/ Contains(result_album, album_lower)
            /\ found[i].artworkUrl100 # <<>> }

\* The loop over the results: the candidates that pass both containment
\* tests and carry an artwork URL
Matching(found, artist, album) ==
    { i \in 1..Len(found) :
        LET result_artist == lower(found[i].artistName)
            result_album == lower(found[i].collectionName)
            artist_lower == lower(artist)
            album_lower == lower(clean_album_name(album))
        IN  /\ result_artist # <<>>
            /\ result_album # <<>>
            /\ Contains(artist_lower, result_artist) \/ Contains(result_artist, artist_lower)
            /\ Contains(album_lower, result_album) \/ Contains(result_album, album_lower)
            /\ found[i].artworkUrl100 # <<>> }

\* Variant: every outcome of a request sets the gate
Outcome_setting_gate(url, reason, store, limit) ==
    [url |-> url, reason |-> reason, store |-> store, limit |-> TRUE]

\* What a call makes of the answer to its request: the pair it returns,
\* whether the pair is stored in the cache, whether the gate is set
Outcome(url, reason, store, limit) ==
    [url |-> url, reason |-> reason, store |-> store, limit |-> limit]

\* What ends in "except Exception": a network error other than a timeout,
\* a body that is not JSON (resp.json() raises), a JSON body that is not an
\* object (data.get raises)
Raising == {"error", "invalid json", "not an object"}

\* data.get("results", []): a JSON object without the key counts as no results
ResultsOf(response) ==
    IF response.kind = "no results key" THEN <<>> ELSE response.results

\* Variant: the answer to a 429 is stored like a negative result
Resolve_storing_rate_limited(response, artist, album) ==
    CASE response.kind = "timeout" -> Outcome(None, "timeout", FALSE, FALSE)
      [] response.kind = "status" ->
            IF response.status = 429
            THEN Outcome(None, "rate limited", TRUE, TRUE)
            ELSE Outcome(None, "http error", FALSE, FALSE)
      [] response.kind \in Raising -> Outcome(None, "error", FALSE, FALSE)
      [] OTHER ->
            LET found == ResultsOf(response)
            IN  IF found = <<>>
                THEN Outcome(None, "not found", TRUE, FALSE)
                ELSE LET hits == Matching(found, artist, album)
                     IN  IF hits = {}
                         THEN Outcome(None, "no album match", TRUE, FALSE)
                         ELSE Outcome(HighRes(found[
                                          CHOOSE i \in hits : \A k \in hits : i <= k
                                      ].artworkUrl100),
                                      "matched", TRUE, FALSE)

\* The request of a call has ended: the try block and its handlers
Resolve(response, artist, album) ==
    CASE response.kind = "timeout" -> Outcome(None, "timeout", FALSE, FALSE)
      [] response.kind = "status" ->
            IF response.status = 429
            THEN Outcome(None, "rate limited", FALSE, TRUE)
            ELSE Outcome(None, "http error", FALSE, FALSE)
      [] response.kind \in Raising -> Outcome(None, "error", FALSE, FALSE)
      [] OTHER ->
            LET found == ResultsOf(response)
            IN  IF found = <<>>
                THEN Outcome(None, "not found", TRUE, FALSE)
                ELSE LET hits == Matching(found, artist, album)
                     IN  IF hits = {}
                         THEN Outcome(None, "no album match", TRUE, FALSE)
                         ELSE Outcome(HighRes(found[
                                          CHOOSE i \in hits : \A k \in hits : i <= k
                                      ].artworkUrl100),
                                      "matched", TRUE, FALSE)

\* The names the adapters ask about
Lookups ==
    { [artist |-> <<"A">>, album |-> <<"B">>],
      [artist |-> <<" ", "a">>, album |-> <<"b", " ">>],
      [artist |-> <<"A">>, album |-> <<"(", "D", "e", "l", "u", "x", "e", ")">>],
      [artist |-> <<>>, album |-> <<>>] }

Candidate(artist, album, url) ==
    [artistName |-> artist, collectionName |-> album, artworkUrl100 |-> url]

ArtUrl == <<"https://is1.example/a/", "100x100bb", ".jpg">>

\* The artwork of a candidate that stands second in its list
ArtUrlSecond == <<"https://is1.example/s/", "100x100bb", ".jpg">>

\* The result lists the search service sends
ResultLists ==
    { <<>>,
      <<Candidate(<<"a">>, <<"B">>, ArtUrl)>>,
      <<Candidate(<<"c">>, <<"b">>, ArtUrl)>>,
      <<Candidate(<<>>, <<"b">>, ArtUrl)>>,
      <<Candidate(<<"a">>, <<"b">>, <<>>)>>,
      <<Candidate(<<"a">>, <<"c">>, ArtUrl)>>,
      <<Candidate(<<"a">>, <<>>, ArtUrl)>>,
      <<Candidate(<<"c">>, <<"b">>, ArtUrl), Candidate(<<"T", "h", "e", " ", "A">>, <<"b">>, ArtUrl)>>,
      <<Candidate(<<>>, <<"b">>, ArtUrl), Candidate(<<"a">>, <<"b">>, ArtUrlSecond)>> }

\* The ways a request ends: timeout, an error status, a network error, a
\* body of status 200 that is not the expected JSON, or a result list
Responses ==
    { [kind |-> "timeout", status |-> 0, results |-> <<>>],
      [kind |-> "status", status |-> 429, results |-> <<>>],
      [kind |-> "status", status |-> 500, results |-> <<>>],
      [kind |-> "error", status |-> 0, results |-> <<>>],
      [kind |-> "invalid json", status |-> 200, results |-> <<>>],
      [kind |-> "not an object", status |-> 200, results |-> <<>>],
      [kind |-> "no results key", status |-> 200, results |-> <<>>] }
    \cup { [kind |-> "ok", status |-> 200, results |-> r] : r \in ResultLists }

\* The key, the query and the outcome of every lookup, computed once
KeyOf == [l \in Lookups |-> cache_key(l.artist, l.album)]

QueryOf == [l \in Lookups |-> Query(l.artist, l.album)]

OutcomeOf == [l \in Lookups |-> [r \in Responses |-> Resolve(r, l.artist, l.album)]]

Lookup(artist, album) == [artist |-> artist, album |-> album]

NoCall == [artist |-> <<>>, album |-> <<>>, busy |-> FALSE]

FreeSlots == { n \in 1..MaxInflight : ~inflight[n].busy }

\* Variant: the gate is still closed at the instant it elapses
GateClosed_inclusive == art_now <= rate_limit_until

\* time.time() < _rate_limit_until
GateClosed == art_now < rate_limit_until

\* A call has returned: what it was asked, what it answered, whether it had
\* issued a request; seq tells one return from the next
Returned(artist, album, url, reason, requested) ==
    <<[artist |-> artist, album |-> album, url |-> url, reason |-> reason,
       requested |-> requested,
       seq |-> IF returned = <<>> THEN 0 ELSE 1 - returned[1].seq]>>

\* Variant: the cache is tested before the feature switch
get_itunes_artwork_cache_first(artist, album) ==
    LET key == KeyOf[Lookup(artist, album)]
    IN  /\ IF key \in DOMAIN artwork_cache
           THEN /\ returned' = Returned(artist, album, artwork_cache[key].url,
                                        "cached (" \o artwork_cache[key].reason \o ")",
                                        FALSE)
                /\ UNCHANGED inflight
           ELSE IF ~prefer_itunes
           THEN /\ returned' = Returned(artist, album, None, "disabled", FALSE)
                /\ UNCHANGED inflight
           ELSE IF GateClosed
           THEN /\ returned' = Returned(artist, album, None, "rate limited", FALSE)
                /\ UNCHANGED inflight
           ELSE IF QueryOf[Lookup(artist, album)] = <<>>
           THEN /\ returned' = Returned(artist, album, None, "no query", FALSE)
                /\ UNCHANGED inflight
           ELSE /\ FreeSlots # {}
                /\ inflight' = [inflight EXCEPT
                                  ![CHOOSE n \in FreeSlots : \A k \in FreeSlots : n <= k] =
                                      [artist |-> artist, album |-> album, busy |-> TRUE]]
                /\ UNCHANGED returned
        /\ UNCHANGED <<prefer_itunes, artwork_cache, rate_limit_until, art_now>>
        /\ UNCHANGED beyond_artwork

\* Variant: the gate is tested before the cache
get_itunes_artwork_gate_first(artist, album) ==
    LET key == KeyOf[Lookup(artist, album)]
    IN  /\ IF ~prefer_itunes
           THEN /\ returned' = Returned(artist, album, None, "disabled", FALSE)
                /\ UNCHANGED inflight
           ELSE IF GateClosed
           THEN /\ returned' = Returned(artist, album, None, "rate limited", FALSE)
                /\ UNCHANGED inflight
           ELSE IF key \in DOMAIN artwork_cache
           THEN /\ returned' = Returned(artist, album, artwork_cache[key].url,
                                        "cached (" \o artwork_cache[key].reason \o ")",
                                        FALSE)
                /\ UNCHANGED inflight
           ELSE IF QueryOf[Lookup(artist, album)] = <<>>
           THEN /\ returned' = Returned(artist, album, None, "no query", FALSE)
                /\ UNCHANGED inflight
           ELSE /\ FreeSlots # {}
                /\ inflight' = [inflight EXCEPT
                                  ![CHOOSE n \in FreeSlots : \A k \in FreeSlots : n <= k] =
                                      [artist |-> artist, album |-> album, busy |-> TRUE]]
                /\ UNCHANGED returned
        /\ UNCHANGED <<prefer_itunes, artwork_cache, rate_limit_until, art_now>>
        /\ UNCHANGED beyond_artwork

\* get_itunes_artwork(artist, album) up to its return or its request
get_itunes_artwork(artist, album) ==
    LET key == KeyOf[Lookup(artist, album)]
    IN  /\ IF ~prefer_itunes
           THEN /\ returned' = Returned(artist, album, None, "disabled", FALSE)
                /\ UNCHANGED inflight
           ELSE IF key \in DOMAIN artwork_cache
           THEN /\ returned' = Returned(artist, album, artwork_cache[key].url,
                                        "cached (" \o artwork_cache[key].reason \o ")",
                                        FALSE)
                /\ UNCHANGED inflight
           ELSE IF GateClosed
           THEN /\ returned' = Returned(artist, album, None, "rate limited", FALSE)
                /\ UNCHANGED inflight
           ELSE IF QueryOf[Lookup(artist, album)] = <<>>
           THEN /\ returned' = Returned(artist, album, None, "no query", FALSE)
                /\ UNCHANGED inflight
           ELSE /\ FreeSlots # {}
                /\ inflight' = [inflight EXCEPT
                                  ![CHOOSE n \in FreeSlots : \A k \in FreeSlots : n <= k] =
                                      [artist |-> artist, album |-> album, busy |-> TRUE]]
                /\ UNCHANGED returned
        /\ UNCHANGED <<prefer_itunes, artwork_cache, rate_limit_until, art_now>>
        /\ UNCHANGED beyond_artwork

\* Variant: whatever the call returns is stored in the cache
request_done_storing_all(n, response) ==
    /\ n \in 1..MaxInflight
    /\ inflight[n].busy
    /\ LET artist == inflight[n].artist
           album == inflight[n].album
           key == KeyOf[Lookup(artist, album)]
           out == OutcomeOf[Lookup(artist, album)][response]
       IN  /\ artwork_cache' =
                 [k \in DOMAIN artwork_cache \cup {key} |->
                     IF k = key THEN [url |-> out.url, reason |-> out.reason]
                     ELSE artwork_cache[k]]
           /\ rate_limit_until' = IF out.limit THEN art_now + backoff ELSE rate_limit_until
           /\ returned' = Returned(artist, album, out.url, out.reason, TRUE)
    /\ inflight' = [inflight EXCEPT ![n] = NoCall]
    /\ UNCHANGED <<prefer_itunes, art_now>>
    /\ UNCHANGED beyond_artwork

\* The request of a suspended call ends and the call runs to its return
request_done(n, response) ==
    /\ n \in 1..MaxInflight
    /\ inflight[n].busy
    /\ LET artist == inflight[n].artist
           album == inflight[n].album
           key == KeyOf[Lookup(artist, album)]
           out == OutcomeOf[Lookup(artist, album)][response]
       IN  /\ artwork_cache' =
                 IF out.store
                 THEN [k \in DOMAIN artwork_cache \cup {key} |->
                          IF k = key THEN [url |-> out.url, reason |-> out.reason]
                          ELSE artwork_cache[k]]
                 ELSE artwork_cache
           /\ rate_limit_until' = IF out.limit THEN art_now + backoff ELSE rate_limit_until
           /\ returned' = Returned(artist, album, out.url, out.reason, TRUE)
    /\ inflight' = [inflight EXCEPT ![n] = NoCall]
    /\ UNCHANGED <<prefer_itunes, art_now>>
    /\ UNCHANGED beyond_artwork

\* The settings are stored (set_settings) or replaced while no lookup is
\* suspended: the feature is on or off
load_settings(enabled) ==
    /\ \A n \in 1..MaxInflight : ~inflight[n].busy
    /\ queue_pc # "gather"
    /\ prefer_itunes' = enabled
    /\ UNCHANGED <<artwork_cache, rate_limit_until, art_now, inflight, returned>>
    /\ UNCHANGED beyond_artwork

\* Time passes, half a backoff window at a time
ArtTick ==
    /\ art_now < MaxArtTicks * (backoff \div 2)
    /\ art_now' = art_now + backoff \div 2
    /\ UNCHANGED <<prefer_itunes, artwork_cache, rate_limit_until, inflight, returned>>
    /\ UNCHANGED beyond_artwork

InitArtwork ==
    /\ prefer_itunes = TRUE
    /\ artwork_cache = <<>>
    /\ rate_limit_until = 0
    /\ art_now = 0
    /\ inflight = [n \in 1..MaxInflight |-> NoCall]
    /\ returned = <<>>

NextArtwork ==
    \/ \E enabled \in BOOLEAN : load_settings(enabled)
    \/ \E l \in Lookups : get_itunes_artwork(l.artist, l.album)
    \/ \E n \in 1..MaxInflight, response \in Responses : request_done(n, response)
    \/ ArtTick

\* ------------------------------------------------------------------------
\* The queue prefetch (SonosSource._get_enhanced_queue_items). A Sonos URL is
\* a sequence of segments like the other URLs, empty for "no URL".
\* ------------------------------------------------------------------------
QueueItem(artist, album, sonos_url) ==
    [artist |-> artist, album |-> album, sonos_url |-> sonos_url]

\* The tracks a Sonos queue holds: one with artwork, one of an edition without
\* artwork, one without creator
QueueItems ==
    { QueueItem(<<"A">>, <<"B">>, <<"http://sonos/1">>),
      QueueItem(<<"A">>, <<"(", "D", "e", "l", "u", "x", "e", ")">>, <<>>),
      QueueItem(<<>>, <<"B">>, <<"http://sonos/3">>) }

RECURSIVE QueuesOf(_)
QueuesOf(n) ==
    IF n = 0 THEN {<<>>}
    ELSE QueuesOf(n - 1)
         \cup { Append(q, i) : q \in { p \in QueuesOf(n - 1) : Len(p) = n - 1 },
                               i \in QueueItems }

Queues == QueuesOf(MaxQueue)

\* The dict appended for a queue item
Entry(item) ==
    [sonos_url |-> item.sonos_url,
     itunes_url |-> None,
     artist |-> item.artist,
     album |-> item.album,
     has_itunes_match |-> FALSE,
     display_url |-> item.sonos_url,
     reason |-> IF prefer_itunes THEN "" ELSE "disabled"]

\* lookup_itunes after its get_itunes_artwork call returned (url, reason)
Enhanced(entry, url, reason) ==
    IF url # None
    THEN [entry EXCEPT !.reason = reason, !.itunes_url = url,
                       !.has_itunes_match = TRUE, !.display_url = url]
    ELSE [entry EXCEPT !.reason = reason]

NoLookup == [pc |-> "none", url |-> None, reason |-> ""]

\* get_itunes_artwork up to its await, as called by lookup_itunes: the pair it
\* returns at once, or no pair when it issues its request
AtOnce(artist, album) ==
    LET key == KeyOf[Lookup(artist, album)]
    IN  IF ~prefer_itunes THEN <<[url |-> None, reason |-> "disabled"]>>
        ELSE IF key \in DOMAIN artwork_cache
        THEN <<[url |-> artwork_cache[key].url,
                reason |-> "cached (" \o artwork_cache[key].reason \o ")"]>>
        ELSE IF GateClosed THEN <<[url |-> None, reason |-> "rate limited"]>>
        ELSE IF QueryOf[Lookup(artist, album)] = <<>>
        THEN <<[url |-> None, reason |-> "no query"]>>
        ELSE <<>>

\* _get_enhanced_queue_items(device, count, prefer_itunes) up to its gather or,
\* when there is nothing to look up, its return; fetched tells whether
\* device.get_queue came back
get_enhanced_queue_items(count, q, fetched) ==
    /\ queue_pc # "gather"
    /\ IF count <= 0 \/ ~fetched
       THEN /\ queue' = <<>>
            /\ queue_items' = <<>>
            /\ lookups' = <<>>
            /\ queue_result' = <<>>
            /\ queue_pc' = "returned"
       ELSE /\ queue' = q
            /\ queue_items' = [i \in 1..Len(q) |-> Entry(q[i])]
            /\ IF prefer_itunes /\ q # <<>>
               THEN /\ lookups' = [i \in 1..Len(q) |-> [NoLookup EXCEPT !.pc = "created"]]
                    /\ queue_result' = <<>>
                    /\ queue_pc' = "gather"
               ELSE /\ lookups' = [i \in 1..Len(q) |-> NoLookup]
                    /\ queue_result' = queue_items'
                    /\ queue_pc' = "returned"
    /\ UNCHANGED avars
    /\ UNCHANGED beyond_queue

\* Variant: a lookup begins when the lookups before it have returned
lookup_itunes_sequential(i) ==
    /\ queue_pc = "gather"
    /\ i \in 1..Len(lookups)
    /\ lookups[i].pc = "created"
    /\ \A j \in 1..(i - 1) : lookups[j].pc = "done"
    /\ IF queue_items[i].artist # <<>> /\ queue_items[i].album # <<>>
       THEN LET got == AtOnce(queue_items[i].artist, queue_items[i].album)
            IN  IF got = <<>>
                THEN /\ lookups' = [lookups EXCEPT ![i].pc = "awaiting"]
                     /\ UNCHANGED queue_items
                ELSE /\ lookups' = [lookups EXCEPT ![i] =
                                        [pc |-> "done", url |-> got[1].url,
                                         reason |-> got[1].reason]]
                     /\ queue_items' = [queue_items EXCEPT ![i] =
                                      Enhanced(@, got[1].url, got[1].reason)]
       ELSE /\ lookups' = [lookups EXCEPT ![i].pc = "done"]
            /\ queue_items' = [queue_items EXCEPT ![i].reason = "no metadata"]
    /\ UNCHANGED <<queue_pc, queue, queue_result>>
    /\ UNCHANGED avars
    /\ UNCHANGED beyond_queue

\* The event loop starts the lookup_itunes task of item i, in the order of
\* the gather: it runs to its return or to the await of its request
lookup_itunes(i) ==
    /\ queue_pc = "gather"
    /\ i \in 1..Len(lookups)
    /\ lookups[i].pc = "created"
    /\ \A j \in 1..(i - 1) : lookups[j].pc # "created"
    /\ IF queue_items[i].artist # <<>> /\ queue_items[i].album # <<>>
       THEN LET got == AtOnce(queue_items[i].artist, queue_items[i].album)
            IN  IF got = <<>>
                THEN /\ lookups' = [lookups EXCEPT ![i].pc = "awaiting"]
                     /\ UNCHANGED queue_items
                ELSE /\ lookups' = [lookups EXCEPT ![i] =
                                        [pc |-> "done", url |-> got[1].url,
                                         reason |-> got[1].reason]]
                     /\ queue_items' = [queue_items EXCEPT ![i] =
                                      Enhanced(@, got[1].url, got[1].reason)]
       ELSE /\ lookups' = [lookups EXCEPT ![i].pc = "done"]
            /\ queue_items' = [queue_items EXCEPT ![i].reason = "no metadata"]
    /\ UNCHANGED <<queue_pc, queue, queue_result>>
    /\ UNCHANGED avars
    /\ UNCHANGED beyond_queue

\* The request of item i ends, once every task of the gather has had its first
\* run: get_itunes_artwork returns and lookup_itunes writes the item
lookup_itunes_done(i, response) ==
    /\ queue_pc = "gather"
    /\ i \in 1..Len(lookups)
    /\ lookups[i].pc = "awaiting"
    /\ \A j \in 1..Len(lookups) : lookups[j].pc # "created"
    /\ LET l == Lookup(queue_items[i].artist, queue_items[i].album)
           key == KeyOf[l]
           out == OutcomeOf[l][response]
       IN  /\ artwork_cache' =
                 IF out.store
                 THEN [k \in DOMAIN artwork_cache \cup {key} |->
                          IF k = key THEN [url |-> out.url, reason |-> out.reason]
                          ELSE artwork_cache[k]]
                 ELSE artwork_cache
           /\ rate_limit_until' = IF out.limit THEN art_now + backoff ELSE rate_limit_until
           /\ lookups' = [lookups EXCEPT ![i] =
                              [pc |-> "done", url |-> out.url, reason |-> out.reason]]
           /\ queue_items' = [queue_items EXCEPT ![i] = Enhanced(@, out.url, out.reason)]
    /\ UNCHANGED <<queue_pc, queue, queue_result>>
    /\ UNCHANGED <<prefer_itunes, art_now, inflight, returned>>
    /\ UNCHANGED beyond_queue

\* The gather returns when every lookup_itunes task is done: return items
queue_return ==
    /\ queue_pc = "gather"
    /\ \A i \in 1..Len(lookups) : lookups[i].pc = "done"
    /\ queue_result' = queue_items
    /\ queue_pc' = "returned"
    /\ UNCHANGED <<queue, queue_items, lookups>>
    /\ UNCHANGED avars
    /\ UNCHANGED beyond_queue

InitQueue ==
    /\ queue_pc = "idle"
    /\ queue = <<>>
    /\ queue_items = <<>>
    /\ lookups = <<>>
    /\ queue_result = <<>>

NextQueue ==
    \/ \E enabled \in BOOLEAN : load_settings(enabled)
    \/ \E q \in Queues : get_enhanced_queue_items(MaxQueue, q, TRUE)
    \/ \E count \in {0, MaxQueue}, fetched \in BOOLEAN :
          get_enhanced_queue_items(count, <<>>, fetched)
    \/ \E i \in 1..MaxQueue : lookup_itunes(i)
    \/ \E i \in 1..MaxQueue, response \in Responses : lookup_itunes_done(i, response)
    \/ queue_return

\* ------------------------------------------------------------------------
\* The adapters' connections (sources/sonos.py: _get_device, is_available,
\* get_current_track; sources/spotify.py: _get_client, get_current_track),
\* queried by the ticks of the polling tasks
\* ------------------------------------------------------------------------
Speaker == <<"speaker">>

LivingRoom == <<"Living Room">>

Client == <<"client">>

\* What connection and discovery can come to: a speaker is found, none is
\* found (or discovery raises), or the first speaker found is stored and
\* reading its player_name raises
Discoveries == {"found", "none", "name raises"}

\* SonosSource._get_device(): the held device; else nothing when discovery was
\* attempted; else one attempt of connection and discovery
get_device(s, found) ==
    IF s.device # None THEN [state |-> s, value |-> s.device]
    ELSE IF s.discovery_attempted THEN [state |-> s, value |-> None]
    ELSE CASE found = "found" ->
                [state |-> [device |-> Speaker, room_name |-> LivingRoom,
                            discovery_attempted |-> TRUE],
                 value |-> Speaker]
           [] found = "none" ->
                [state |-> [s EXCEPT !.discovery_attempted = TRUE], value |-> None]
           [] OTHER ->
                [state |-> [device |-> Speaker, room_name |-> s.room_name,
                            discovery_attempted |-> TRUE],
                 value |-> None]

\* SpotifySource._get_client(): the held client, else one attempt to build it
get_client(c, built) ==
    IF c.client # None THEN [state |-> c, value |-> c.client]
    ELSE IF built THEN [state |-> [client |-> Client], value |-> Client]
    ELSE [state |-> c, value |-> None]

\* Variant: the handler of a failed query keeps _discovery_attempted
SonosReset_keeping_attempted ==
    [device |-> None, room_name |-> None, discovery_attempted |-> sonos.discovery_attempted]

\* The handler of a failed Sonos query
SonosReset == [device |-> None, room_name |-> None, discovery_attempted |-> FALSE]

NoCalls == [sonos |-> "idle", spotify |-> "idle"]

\* Polling task t is in _poll_sources and has not been cancelled
Polling(t) == loops[t].pc = "poll" /\ ~loops[t].cancel

\* SonosSource.is_available read outside a tick: by the log line of
\* Poller.start() and by GET /api/sources
is_available(found) ==
    /\ sonos' = get_device(sonos, found).state
    /\ UNCHANGED <<spotify, calls, lvars>>
    /\ UNCHANGED beyond_adapters

\* _poll_sources up to its gather: is_available of each adapter, one
\* get_current_track coroutine per available adapter; with no coroutine the
\* tick has its result at once.
tick_filter(t, found, spotify_available) ==
    /\ Polling(t)
    /\ calls[t] = NoCalls
    /\ LET got == get_device(sonos, found)
           created == [sonos |-> IF got.value # None THEN "created" ELSE "skipped",
                       spotify |-> IF spotify_available THEN "created" ELSE "skipped"]
       IN  /\ sonos' = got.state
           /\ IF got.value = None /\ ~spotify_available
              THEN /\ loops' = [loops EXCEPT ![t].pc = "update"]
                   /\ UNCHANGED calls
              ELSE /\ calls' = [calls EXCEPT ![t] = created]
                   /\ UNCHANGED loops
    /\ UNCHANGED <<spotify, running, task, stopping, stopped>>
    /\ UNCHANGED beyond_adapters

\* The coroutines of the gather run up to their first await, one right after
\* the other: get_current_track of Sonos calls _get_device, that of Spotify
\* _get_client; without a device or a client the coroutine returns None.
tick_first_steps(t, found, built) ==
    /\ Polling(t)
    /\ "created" \in {calls[t].sonos, calls[t].spotify}
    /\ LET got == get_device(sonos, found)
           cli == get_client(spotify, built)
       IN  /\ sonos' = IF calls[t].sonos = "created" THEN got.state ELSE sonos
           /\ spotify' = IF calls[t].spotify = "created" THEN cli.state ELSE spotify
           /\ calls' = [calls EXCEPT
                 ![t].sonos = IF @ # "created" THEN @
                              ELSE IF got.value # None THEN "track info" ELSE "done",
                 ![t].spotify = IF @ # "created" THEN @
                                ELSE IF cli.value # None THEN "await" ELSE "done"]
    /\ UNCHANGED lvars
    /\ UNCHANGED beyond_adapters

\* A call of the Sonos device in the executor is over, get_current_track_info
\* and then get_current_transport_info: it returned, or it raised and the
\* handler resets the adapter and returns None.
sonos_query_done(t, failed) ==
    /\ Polling(t)
    /\ calls[t].sonos \in {"track info", "transport info"}
    /\ sonos' = IF failed THEN SonosReset ELSE sonos
    /\ calls' = [calls EXCEPT ![t].sonos =
                    IF failed THEN "failed"
                    ELSE IF @ = "track info" THEN "transport info" ELSE "done"]
    /\ UNCHANGED <<spotify, lvars>>
    /\ UNCHANGED beyond_adapters

\* client.current_playback in the executor is over: it returned, or it raised
\* and the handler drops the client and returns None.
spotify_query_done(t, failed) ==
    /\ Polling(t)
    /\ calls[t].spotify = "await"
    /\ spotify' = IF failed THEN [client |-> None] ELSE spotify
    /\ calls' = [calls EXCEPT ![t].spotify = IF failed THEN "failed" ELSE "done"]
    /\ UNCHANGED <<sonos, lvars>>
    /\ UNCHANGED beyond_adapters

\* Every coroutine of the gather has returned: _poll_sources returns and the
\* loop goes on to playback_state.update
tick_gather_done(t) ==
    /\ Polling(t)
    /\ calls[t] # NoCalls
    /\ calls[t].sonos \in {"skipped", "done", "failed"}
    /\ calls[t].spotify \in {"skipped", "done", "failed"}
    /\ calls' = [calls EXCEPT ![t] = NoCalls]
    /\ loops' = [loops EXCEPT ![t].pc = "update"]
    /\ UNCHANGED <<sonos, spotify, running, task, stopping, stopped>>
    /\ UNCHANGED beyond_adapters

InitAdapters ==
    /\ sonos = [device |-> None, room_name |-> None, discovery_attempted |-> FALSE]
    /\ spotify = [client |-> None]
    /\ calls = [t \in TaskIds |-> NoCalls]

\* One polling task, started once, querying both adapters tick after tick
NextAdapters ==
    \/ start
    \/ \E t \in TaskIds : poll_loop_enter(t)
    \/ \E t \in TaskIds : sleep_done(t)
    \/ \E t \in TaskIds, raised \in BOOLEAN : tick_update(t, raised)
    \/ \E found \in Discoveries : is_available(found)
    \/ \E t \in TaskIds, found \in Discoveries, spotify_available \in BOOLEAN :
          tick_filter(t, found, spotify_available)
    \/ \E t \in TaskIds, found \in Discoveries, built \in BOOLEAN :
          tick_first_steps(t, found, built)
    \/ \E t \in TaskIds, failed \in BOOLEAN : sonos_query_done(t, failed)
    \/ \E t \in TaskIds, failed \in BOOLEAN : spotify_query_done(t, failed)
    \/ \E t \in TaskIds : tick_gather_done(t)

\* The polling tasks left by any interleaving of start() and stop(), querying
\* the Sonos adapter
NextRestarts ==
    \/ start
    \/ stop
    \/ \E t \in TaskIds, o \in BOOLEAN : stop_resume([task |-> t, overlapped |-> o])
    \/ \E t \in TaskIds : deliver_cancel(t)
    \/ \E t \in TaskIds : poll_loop_enter(t)
    \/ \E t \in TaskIds : sleep_done(t)
    \/ \E t \in TaskIds : tick_update(t, FALSE)
    \/ \E found \in {"found", "none"} : is_available(found)
    \/ \E t \in TaskIds, found \in {"found", "none"} : tick_filter(t, found, FALSE)
    \/ \E t \in TaskIds, found \in {"found", "none"} : tick_first_steps(t, found, FALSE)
    \/ \E t \in TaskIds, failed \in BOOLEAN : sonos_query_done(t, failed)
    \/ \E t \in TaskIds : tick_gather_done(t)

\* ------------------------------------------------------------------------
\* The subscriber of an SSE stream (main.py: stream.event_generator). Its
\* callback on_update is the subscriber "cb1"; it puts every payload on the
\* queue from which the events of the stream are sent.
\* ------------------------------------------------------------------------
OnUpdate == "cb1"

\* The callback that the round invokes next
NextCallback == upd.round[Len(upd.invoked) + 1]

\* The snapshots tried on the stream: one track, the same track captured
\* later with another art URL, and a second track
StreamTracks ==
    { None,
      Some(TrackInfo("sonos", "Song A", "Artist X", "Album P", TRUE, 0, "art1", 1)),
      Some(TrackInfo("sonos", "Song A", "Artist X", "Album P", TRUE, 0, "art2", 2)),
      Some(TrackInfo("sonos", "Song B", "Artist X", "Album P", TRUE, 0, "art1", 1)) }

\* The _safe_notify coroutine of the stream's callback runs:
\* on_update(track) puts the payload on the queue and returns.
on_update ==
    /\ upd.pc = "notify"
    /\ Len(upd.invoked) < Len(upd.round)
    /\ NextCallback = OnUpdate
    /\ upd' = [upd EXCEPT !.invoked =
                 Append(@, [callback |-> OnUpdate, track |-> upd.track,
                            raised |-> FALSE])]
    /\ sse_queue' = Append(sse_queue, upd.track)
    /\ UNCHANGED <<current_track, last_updated, subscribers,
                   consecutive_none_count, now,
                   last_arg, call_seq, none_run, run_held, reset_from,
                   update_raised>>
    /\ UNCHANGED beyond_stream

\* Sequential update() calls on a store whose subscribers, the stream's
\* callback among them, are registered and never removed
NextStream ==
    \/ \E cb \in Callbacks : subscribe(cb)
    \/ \E track \in StreamTracks : Len(sse_queue) < MaxPayloads /\ update(track)
    \/ \E raised \in BOOLEAN :
          /\ upd.pc = "notify"
          /\ Len(upd.invoked) < Len(upd.round)
          /\ NextCallback # OnUpdate
          /\ safe_notify(raised)
    \/ on_update
    \/ update_return

\* The adapters of a tick whose queries come back: unavailable, raising, or
\* returning what the adapter makes of its service's report
ReportingAdapters ==
    UNION { { [name |-> n, is_available |-> FALSE, outcome |-> ReturnNone],
              [name |-> n, is_available |-> TRUE, outcome |-> Raise] }
            \cup { [name |-> n, is_available |-> TRUE,
                    outcome |-> [kind |-> "return", value |-> b]] : b \in Built(n) }
            : n \in SourceNames }

\* What a tick of the polling loop hands to update(): the result of
\* _poll_sources for every list of such adapters
TickResults ==
    { PollSources(srcs).value :
        srcs \in UNION { [1..n -> ReportingAdapters] : n \in 0..MaxSources } }

\* The ticks of the polling loop, one after the other, feeding the state store
NextPipeline ==
    \/ \E track \in TickResults : update(track)
    \/ \E raised \in BOOLEAN : safe_notify(raised)
    \/ update_return
    \/ \E cb \in Callbacks : subscribe(cb)

InitPoll ==
    /\ sources = <<>>
    /\ poll_pc = "idle"
    /\ tasks = <<>>
    /\ task_state = <<>>
    /\ results = <<>>
    /\ call_count = <<>>
    /\ poll_result = NoResult

InitState ==
    /\ current_track = None
    /\ last_updated = 0
    /\ subscribers = <<>>
    /\ consecutive_none_count = 0
    /\ now = 0
    /\ upd = IdleUpd
    /\ last_arg = None
    /\ call_seq = 0
    /\ none_run = 0
    /\ run_held = FALSE
    /\ reset_from = 0
    /\ update_raised = FALSE

NextState ==
    \/ \E track \in TrackOpt : update(track)
    \/ \E raised \in BOOLEAN : safe_notify(raised)
    \/ update_return
    \/ \E cb \in Callbacks : subscribe(cb)
    \/ \E cb \in Callbacks : unsubscribe(cb)
    \/ Tick

NextPoll ==
    \/ \E srcs \in SourceLists : poll_sources_begin(srcs)
    \/ \E k \in 1..MaxSources : adapter_start(k)
    \/ \E k \in 1..MaxSources : adapter_finish(k)
    \/ poll_sources_end
    \/ next_tick

Init ==
    /\ InitState /\ InitPoll /\ InitLoop /\ InitArtwork /\ InitQueue /\ InitAdapters
    /\ sse_queue = <<>>

\* The state store under arbitrary sequential update() calls
Spec == Init /\ [][NextState]_vars

\* One _poll_sources call after another
SpecPoll == Init /\ [][NextPoll]_vars

\* The poller's start(), stop() and polling tasks, in any interleaving
SpecLoop == Init /\ [][NextLoop]_vars

\* get_itunes_artwork calls, sequential and concurrent, against a service
\* that answers each request as it likes
SpecArtwork == Init /\ [][NextArtwork]_vars

\* The ticks of one polling task querying the Sonos and the Spotify adapter
SpecAdapters == Init /\ [][NextAdapters]_vars

\* The Sonos adapter queried by the polling tasks that start() and stop()
\* leave behind
SpecRestarts == Init /\ [][NextRestarts]_vars

\* The state store with the callback of an SSE stream among its subscribers
SpecStream == Init /\ [][NextStream]_vars

\* The state store fed by the ticks of the polling loop
SpecPipeline == Init /\ [][NextPipeline]_vars

\* One _get_enhanced_queue_items call after another, each with the lookups of
\* its items in flight together
SpecQueue == Init /\ [][NextQueue]_vars

\* ------------------------------------------------------------------------
\* Properties of the state store (checked under Spec)
\* ------------------------------------------------------------------------
\* The step is a call of update()
UpdateCalled == call_seq' # call_seq

\* The five fields the claims name as the identity of a snapshot
IdentityOf(t) == <<t.source, t.title, t.artist, t.album, t.is_playing>>

SameIdentity(a, b) == IdentityOf(a) = IdentityOf(b)

\* The call started no notification round: it returned without invoking anyone
NobodyInvoked == upd' = IdleUpd

\* The call started a round for payload p over the subscribers of that moment
RoundStarted(p) ==
    /\ upd'.pc = "notify"
    /\ upd'.track = p
    /\ upd'.round = subscribers
    /\ upd'.invoked = <<>>

\* When update() returns from a round, every entry of the subscriber list taken
\* at the start of the round has been invoked exactly once, with the payload
RoundDelivered ==
    (upd.pc = "notify" /\ upd'.pc = "idle") =>
        /\ Len(upd.invoked) = Len(upd.round)
        /\ \A k \in 1..Len(upd.round) :
              /\ upd.invoked[k].callback = upd.round[k]
              /\ upd.invoked[k].track = upd.track

\* C1: grace period. With a track S held, a first update(None) leaves
\* current_track = S and invokes nobody; the second consecutive update(None)
\* sets current_track to None and invokes every subscriber exactly once with
\* None; a third update(None) invokes nobody.
C1_GracePeriod ==
    [][ /\ (UpdateCalled /\ last_arg' = None /\ none_run' = 1 /\ current_track # None) =>
              (current_track' = current_track /\ NobodyInvoked)
        /\ (UpdateCalled /\ last_arg' = None /\ none_run' = 2 /\ run_held') =>
              (current_track' = None /\ RoundStarted(None))
        /\ (UpdateCalled /\ last_arg' = None /\ none_run' = 3 /\ run_held') =>
              (current_track' = None /\ NobodyInvoked)
        /\ (upd.track = None => RoundDelivered) ]_vars

\* The round of the second None has reached both subscribers
C1_Witness ==
    /\ none_run = 2
    /\ run_held
    /\ current_track = None
    /\ upd.pc = "notify"
    /\ upd.track = None
    /\ Len(upd.round) >= 2
    /\ Len(upd.invoked) = Len(upd.round)

\* C2: equality suppression. update(S2) on a store holding S invokes nobody
\* exactly when S2 agrees with S on source, title, artist, album and
\* is_playing, whatever the other fields of S2.
C2_EqualitySuppression ==
    [][ (UpdateCalled /\ last_arg' # None /\ current_track # None) =>
            (NobodyInvoked <=> SameIdentity(current_track[1], last_arg'[1])) ]_vars

\* A snapshot with another position or art URL and timestamp was suppressed
C2_Witness ==
    /\ last_arg # None
    /\ current_track # None
    /\ upd = IdleUpd
    /\ subscribers # <<>>
    /\ SameIdentity(current_track[1], last_arg[1])
    /\ last_arg[1].position_ms # current_track[1].position_ms

\* C3: accepted transition. update(S2) with S2 not equal to the current state
\* (Empty, or a snapshot differing in an identity field) makes current_track
\* S2 and the counter 0, and the round invokes every subscriber registered at
\* its start with S2.
C3_AcceptedTransition ==
    [][ /\ ( /\ UpdateCalled
             /\ last_arg' # None
             /\ (current_track = None \/ ~SameIdentity(current_track[1], last_arg'[1])) ) =>
              /\ current_track' = last_arg'
              /\ consecutive_none_count' = 0
              /\ RoundStarted(last_arg')
        /\ (upd.track # None => RoundDelivered) ]_vars

\* A round for a snapshot has been delivered to the two subscribers it started
\* with, one of which has unsubscribed meanwhile
C3_Witness ==
    /\ upd.pc = "notify"
    /\ upd.track # None
    /\ current_track = upd.track
    /\ consecutive_none_count = 0
    /\ Len(upd.round) >= 2
    /\ Len(upd.invoked) = Len(upd.round)
    /\ Len(subscribers) < Len(upd.round)

\* C4: a snapshot between two empty results resets the grace counter. Right
\* after update(S2) the counter is 0 (also when S2 equals the held track); the
\* update(None) that follows leaves the track held and the counter at 1.
C4_SnapshotResetsCounter ==
    /\ (last_arg # None /\ none_run = 0) =>
          (consecutive_none_count = 0 /\ current_track # None)
    /\ (none_run = 1 /\ run_held) =>
          (consecutive_none_count = 1 /\ current_track # None)

\* Occupied, update(None), update(S2), update(None): S2 found the counter at 1
C4_Witness ==
    /\ none_run = 1
    /\ run_held
    /\ reset_from = 1
    /\ consecutive_none_count = 1
    /\ current_track # None

\* ------------------------------------------------------------------------
\* Properties of _poll_sources (checked under SpecPoll)
\* ------------------------------------------------------------------------
\* The sources that delivered a snapshot in this tick
Delivered ==
    { i \in 1..Len(sources) :
        /\ sources[i].is_available
        /\ sources[i].outcome.kind = "return"
        /\ sources[i].outcome.value # None }

SnapshotOf(i) == sources[i].outcome.value[1]

DeliveredPlaying == { i \in Delivered : SnapshotOf(i).is_playing }

Failed == { i \in 1..Len(sources) :
              sources[i].is_available /\ sources[i].outcome.kind = "raise" }

Least(S) == CHOOSE i \in S : \A j \in S : i <= j

\* The result is the snapshot of source i
ReturnsSnapshotOf(i) ==
    /\ ~poll_result.raised
    /\ poll_result.from = i
    /\ poll_result.value = Some(SnapshotOf(i))

ReturnsNoTrack == ~poll_result.raised /\ poll_result.value = None

\* C5: playing beats paused. When a collected snapshot is playing, the result
\* is a collected playing snapshot, whatever the paused ones look like.
C5_PlayingBeatsPaused ==
    (poll_pc = "done" /\ DeliveredPlaying # {}) =>
        \E i \in DeliveredPlaying : ReturnsSnapshotOf(i)

\* A playing snapshot won over an earlier, more recent paused one
C5_Witness ==
    /\ poll_pc = "done"
    /\ Len(sources) = 2
    /\ Delivered = {1, 2}
    /\ DeliveredPlaying = {2}
    /\ SnapshotOf(1).timestamp > SnapshotOf(2).timestamp
    /\ poll_result.from = 2

\* C6: preferred source. Among the playing snapshots one from "spotify" is
\* returned wherever it stands; without one, the first playing snapshot in
\* adapter order is returned.
C6_PreferredSource ==
    (poll_pc = "done" /\ DeliveredPlaying # {}) =>
        LET preferred == { i \in DeliveredPlaying : SnapshotOf(i).source = "spotify" }
        IN  IF preferred # {}
            THEN \E i \in preferred : ReturnsSnapshotOf(i)
            ELSE ReturnsSnapshotOf(Least(DeliveredPlaying))

\* Sonos and Spotify both playing, Spotify second: Spotify wins
C6_Witness ==
    /\ poll_pc = "done"
    /\ DeliveredPlaying = {1, 2}
    /\ SnapshotOf(1).source = "sonos"
    /\ SnapshotOf(2).source = "spotify"
    /\ poll_result.from = 2

\* C7: all paused. With snapshots collected and none playing, the result is
\* the one with the greatest timestamp, the earliest in adapter order among
\* those that share it.
C7_MostRecentPaused ==
    (poll_pc = "done" /\ Delivered # {} /\ DeliveredPlaying = {}) =>
        LET newest == { i \in Delivered :
                          \A j \in Delivered :
                              SnapshotOf(j).timestamp <= SnapshotOf(i).timestamp }
        IN  ReturnsSnapshotOf(Least(newest))

\* Two paused snapshots share the greatest timestamp: the first is returned
C7_Witness ==
    /\ poll_pc = "done"
    /\ Delivered = {1, 2}
    /\ DeliveredPlaying = {}
    /\ SnapshotOf(1).timestamp = SnapshotOf(2).timestamp
    /\ poll_result.from = 1

\* C8: when every source is unavailable, raises or returns None, the tick
\* returns None and does not raise.
C8_AllFailingYieldsNone ==
    (poll_pc = "done" /\ Delivered = {}) => ReturnsNoTrack

\* One source raised, the other returned None
C8_Witness ==
    /\ poll_pc = "done"
    /\ Len(sources) = 2
    /\ Failed = {1}
    /\ sources[2].is_available
    /\ Delivered = {}
    /\ \A k \in 1..Len(tasks) : task_state[k] = "done"
    /\ ReturnsNoTrack

\* The sources of the tick without the adapters that raised
Survivors == SelectSeq(Indices(sources), LAMBDA i : i \notin Failed)

\* C9: failure isolation. The result of the tick is the selection applied to
\* the snapshots of the adapters that did not fail: it is what the tick would
\* return had the failed adapters not been in the list.
C9_FailureIsolation ==
    (poll_pc = "done") =>
        LET alone == PollSources([k \in 1..Len(Survivors) |-> sources[Survivors[k]]])
        IN  /\ ~poll_result.raised
            /\ poll_result.value = alone.value
            /\ poll_result.from = IF alone.from = 0 THEN 0 ELSE Survivors[alone.from]

\* The first adapter raised and the snapshot of the second is the result
C9_Witness ==
    /\ poll_pc = "done"
    /\ Failed = {1}
    /\ Delivered = {2}
    /\ ReturnsSnapshotOf(2)

\* C10: in a tick get_current_track is invoked exactly once on each available
\* source and never on an unavailable one; with no source available the tick
\* returns None with no adapter call.
C10_OnlyAvailablePolled ==
    /\ \A i \in 1..Len(call_count) :
          /\ call_count[i] <= 1
          /\ ~sources[i].is_available => call_count[i] = 0
    /\ poll_pc = "done" =>
          /\ \A i \in 1..Len(sources) :
                call_count[i] = IF sources[i].is_available THEN 1 ELSE 0
          /\ (\A i \in 1..Len(sources) : ~sources[i].is_available) => ReturnsNoTrack

\* One available source was called once, the unavailable one never
C10_Witness ==
    /\ poll_pc = "done"
    /\ Len(sources) = 2
    /\ sources[1].is_available
    /\ ~sources[2].is_available
    /\ call_count = <<1, 0>>
    /\ poll_result.from = 1

\* ---------------------------------------------------------------------------
\* Subscribers: fault isolation, round membership, unsubscription
\* ---------------------------------------------------------------------------

\* The step is an invocation of a callback that raised
CallbackRaised ==
    /\ upd.pc = "notify"
    /\ upd'.pc = "notify"
    /\ Len(upd'.invoked) = Len(upd.invoked) + 1
    /\ upd'.invoked[Len(upd'.invoked)].raised

\* A notification round starts with this step
RoundStarts == upd.pc = "idle" /\ upd'.pc = "notify"

\* C11: subscriber fault isolation. When a callback raises during a round,
\* the round goes on unchanged, update() returns only after every entry of the
\* round has been invoked with the new value, update() does not raise, and the
\* failure leaves the subscriber list as it was.
C11_FaultIsolation ==
    [][ /\ ~update_raised'
        /\ CallbackRaised =>
              /\ subscribers' = subscribers
              /\ upd'.round = upd.round
              /\ upd'.track = upd.track
        /\ (\E k \in 1..Len(upd.invoked) : upd.invoked[k].raised) => RoundDelivered ]_vars

\* The first callback of a round raised and the second one was still invoked
C11_Witness ==
    /\ upd.pc = "notify"
    /\ Len(upd.round) >= 2
    /\ Len(upd.invoked) = Len(upd.round)
    /\ upd.invoked[1].raised
    /\ ~upd.invoked[2].raised
    /\ upd.invoked[2].callback = upd.round[2]
    /\ upd.invoked[2].track = upd.track
    /\ upd.invoked[2].callback # upd.invoked[1].callback
    /\ subscribers = upd.round
    /\ ~update_raised

\* The step is an unsubscribe(cb) that took an entry of cb off the list
Unsubscribed(cb) ==
    Cardinality({ i \in 1..Len(subscribers') : subscribers'[i] = cb })
        < Cardinality({ i \in 1..Len(subscribers) : subscribers[i] = cb })

\* C12: a round invokes exactly the subscriber list of the moment it starts.
\* A subscription made inside a round does not join that round and is served
\* from the next round on; a callback unsubscribed inside a round is on the
\* list of no later round.
C12_RoundIsStartSnapshot ==
    [][ /\ RoundStarts => upd'.round = subscribers
        /\ (upd.pc = "notify" /\ upd'.pc = "notify") => upd'.round = upd.round
        /\ RoundDelivered
        /\ \A cb \in Callbacks :
              (upd.pc = "notify" /\ Unsubscribed(cb)) => ~InList(subscribers', cb) ]_vars

\* C13: unsubscribed callbacks receive no updates. A round invokes the
\* entries of the subscriber list of the moment it starts, and when
\* unsubscribe(cb) returns that list holds no entry of cb, however often cb
\* had been subscribed; so no round that starts before cb is subscribed
\* again invokes cb.
C13_UnsubscribedNotInvoked ==
    [][ /\ RoundStarts => upd'.round = subscribers
        /\ \A cb \in Callbacks : Unsubscribed(cb) => ~InList(subscribers', cb) ]_vars

\* ---------------------------------------------------------------------------
\* The polling loop: resilience, stop, single task
\* ---------------------------------------------------------------------------

\* C14: log and continue. A tick in which _poll_sources or
\* playback_state.update raises ends in the loop's sleep, not in the end of the
\* task; and when the sleep is over while the poller is running, the next tick
\* begins.
C14_LogAndContinue ==
    [][ \A t \in TaskIds :
          /\ ( /\ loops[t].pc \in {"poll", "update"}
               /\ loops'[t].error # "none" ) => loops'[t].pc = "sleep"
          /\ ( /\ loops[t].pc = "sleep"
               /\ loops'[t].pc # "sleep"
               /\ ~loops[t].cancel
               /\ running ) => loops'[t].pc = "poll" ]_vars

\* A tick failed in update, the loop slept and is now in the update of its
\* next tick
C14_Witness ==
    \E t \in TaskIds :
        /\ loops[t].recovered
        /\ loops[t].pc = "update"
        /\ running
        /\ task = t

\* C15: no tick after stop. From the return of a stop() until start() is
\* called, no polling loop is left that can start a tick or call
\* playback_state.update: every task has ended or is about to end by its
\* cancellation.
C15_NoTickAfterStop ==
    stopped => \A t \in TaskIds : ~IsLive(loops[t])

\* C16: start never creates duplicate polling tasks. In every interleaving of
\* start() and stop() at most one polling loop is live, and a live loop is the
\* task referenced by _task.
C16_SingleLiveLoop ==
    /\ Cardinality({ t \in TaskIds : IsLive(loops[t]) }) <= 1
    /\ \A t \in TaskIds : IsLive(loops[t]) => task = t

\* ---------------------------------------------------------------------------
\* One tick: concurrent queries, completion
\* ---------------------------------------------------------------------------

\* The next task of the gather that has not begun
NextToStart(k) ==
    /\ k \in 1..Len(tasks)
    /\ task_state[k] = "created"
    /\ \A j \in 1..(k - 1) : task_state[j] # "created"

\* The tick can take a step: a query begins, a query ends, or the gather returns
TickCanStep ==
    \/ \E k \in 1..MaxSources : ENABLED adapter_start(k)
    \/ \E k \in 1..MaxSources : ENABLED adapter_finish(k)
    \/ ENABLED poll_sources_end

\* C17: within a tick the available adapters are queried concurrently. While
\* the gather is awaited, a query that has not begun can begin whatever the
\* queries before it are doing (none has to complete first), and the tick has
\* a result only when every query has completed or failed.
C17_ConcurrentFanIn ==
    /\ poll_pc = "gather" =>
          \A k \in 1..MaxSources : NextToStart(k) => ENABLED adapter_start(k)
    /\ poll_pc = "done" =>
          \A k \in 1..Len(tasks) : task_state[k] = "done" /\ results[k] # Pending
    /\ poll_pc # "done" => poll_result = NoResult

\* Two queries are in flight and the second one has ended before the first
C17_Witness ==
    /\ poll_pc = "gather"
    /\ Len(tasks) = 2
    /\ task_state[1] = "running"
    /\ task_state[2] = "done"
    /\ call_count[tasks[1]] = 1
    /\ call_count[tasks[2]] = 1

\* C18: every tick completes. An awaited gather is never stuck: as long as the
\* tick has not reached its fan-in, a query can begin or end or the gather can
\* return, also when the query of one available adapter does not come back by
\* itself.
C18_TickCompletes ==
    poll_pc = "gather" => TickCanStep

\* ---------------------------------------------------------------------------
\* The artwork cache
\* ---------------------------------------------------------------------------

\* "artist|album" of every lookup, lower-cased and trimmed
Normalized ==
    [l \in Lookups |-> strip(lower(l.artist \o <<"|">> \o l.album))]

\* The step issues the request of a call get_itunes_artwork(l)
RequestIssued(l) ==
    \E n \in 1..MaxInflight :
        /\ ~inflight[n].busy
        /\ inflight'[n] = [artist |-> l.artist, album |-> l.album, busy |-> TRUE]

\* The step is a call get_itunes_artwork(l) that returns without a request
ReturnedAtOnce(l) ==
    /\ returned' # returned
    /\ ~returned'[1].requested
    /\ returned'[1].artist = l.artist
    /\ returned'[1].album = l.album

\* The step is a call get_itunes_artwork(l), made with the feature enabled,
\* that follows, with no other return in between, a call for an equal key that
\* had issued a request
SecondCall(l) ==
    /\ prefer_itunes
    /\ returned # <<>>
    /\ returned[1].requested
    /\ Normalized[Lookup(returned[1].artist, returned[1].album)] = Normalized[l]
    /\ RequestIssued(l) \/ ReturnedAtOnce(l)

\* The call of the step was answered with what the call before it returned
AnsweredFromCache(l) ==
    /\ ReturnedAtOnce(l)
    /\ inflight' = inflight
    /\ artwork_cache' = artwork_cache
    /\ returned'[1].url = returned[1].url
    /\ returned'[1].reason = "cached (" \o returned[1].reason \o ")"

C20_WriteOnce ==
    [][ /\ \A k \in DOMAIN artwork_cache :
              /\ k \in DOMAIN artwork_cache'
              /\ artwork_cache'[k] = artwork_cache[k]
        /\ \A l \in Lookups : RequestIssued(l) => KeyOf[l] \notin DOMAIN artwork_cache ]_vars

\* ---------------------------------------------------------------------------
\* The rate-limit gate
\* ---------------------------------------------------------------------------

\* The step is a call get_itunes_artwork(l), whichever way it goes
Called(l) == RequestIssued(l) \/ ReturnedAtOnce(l)

\* The step is a call get_itunes_artwork(l) refused at the gate
RefusedAtGate(l) ==
    /\ ReturnedAtOnce(l)
    /\ returned'[1].url = None
    /\ returned'[1].reason = "rate limited"
    /\ inflight' = inflight

\* The step is the return of a call whose request was answered with 429
Received429 ==
    /\ returned' # returned
    /\ returned'[1].requested
    /\ returned'[1].reason = "rate limited"

C22_CacheHitBypassesGate ==
    [][ \A l \in Lookups :
          ( /\ Called(l)
            /\ prefer_itunes
            /\ art_now < rate_limit_until
            /\ KeyOf[l] \in DOMAIN artwork_cache )
          => /\ ReturnedAtOnce(l)
             /\ returned'[1].url = artwork_cache[KeyOf[l]].url
             /\ returned'[1].reason = "cached (" \o artwork_cache[KeyOf[l]].reason \o ")"
             /\ returned'[1].reason # "rate limited"
             /\ inflight' = inflight
             /\ artwork_cache' = artwork_cache
             /\ rate_limit_until' = rate_limit_until ]_vars

\* A stored URL was handed out while the gate was closed
C22_Witness ==
    /\ art_now < rate_limit_until
    /\ returned # <<>>
    /\ ~returned[1].requested
    /\ returned[1].reason = "cached (matched)"
    /\ returned[1].url = HighRes(ArtUrl)

\* The step is a return with reason "rate limited", from the gate or from a 429
RateLimitedReturn ==
    /\ returned' # returned
    /\ returned'[1].reason = "rate limited"

\* The step is a call get_itunes_artwork(l), made once the gate has elapsed,
\* that follows a "rate limited" return for an equal key with no other return
\* in between
FirstCallAfterGate(l) ==
    /\ Called(l)
    /\ prefer_itunes
    /\ returned # <<>>
    /\ returned[1].reason = "rate limited"
    /\ Normalized[Lookup(returned[1].artist, returned[1].album)] = Normalized[l]
    /\ art_now >= rate_limit_until

\* C23 as stated: a call that returns "rate limited" leaves the cache
\* unchanged, and the first call for the same key made after the gate has
\* elapsed issues a request.
C23_RateLimitedThenRequest ==
    [][ /\ RateLimitedReturn => artwork_cache' = artwork_cache
        /\ \A l \in Lookups : FirstCallAfterGate(l) => RequestIssued(l) ]_vars

\* C23, amended: a call that returns "rate limited" leaves the cache
\* unchanged, and every call made once the gate has elapsed for a key that
\* has no entry issues a request when its query is non-empty and returns
\* "no query" when it is empty. A key that a concurrent lookup has stored in
\* the meantime is answered from the cache.
C23_RateLimitedNotCached ==
    [][ /\ RateLimitedReturn => artwork_cache' = artwork_cache
        /\ \A l \in Lookups :
              ( /\ Called(l)
                /\ prefer_itunes
                /\ art_now >= rate_limit_until
                /\ KeyOf[l] \notin DOMAIN artwork_cache )
              => IF QueryOf[l] # <<>>
                 THEN RequestIssued(l)
                 ELSE ReturnedAtOnce(l) /\ returned'[1].reason = "no query" ]_vars

\* A key refused at the gate has its request under way after the gate elapsed
C23_Witness ==
    /\ returned # <<>>
    /\ returned[1].reason = "rate limited"
    /\ ~returned[1].requested
    /\ returned[1].artist = <<"A">>
    /\ returned[1].album = <<"B">>
    /\ rate_limit_until > 0
    /\ art_now >= rate_limit_until
    /\ <<"a", "|", "b">> \notin DOMAIN artwork_cache
    /\ \E n \in 1..MaxInflight :
          inflight[n] = [artist |-> <<"A">>, album |-> <<"B">>, busy |-> TRUE]

\* ---------------------------------------------------------------------------
\* Failures of the request
\* ---------------------------------------------------------------------------

\* The requests that do not end with a result list
Failures == { r \in Responses : r.kind # "ok" }

\* The reason a failed request is to end with
ReasonOf(response) ==
    CASE response.kind = "timeout" -> "timeout"
      [] response.kind = "status" ->
            IF response.status = 429 THEN "rate limited" ELSE "http error"
      [] OTHER -> "error"

\* C24: resolution never raises. However the request of a call ends (timeout,
\* connection error, 429, another error status, invalid JSON, unexpected JSON
\* shape), the call returns (None, reason) with reason "timeout",
\* "rate limited", "http error" or "error" for these cases in turn.
C24_FailuresGiveReasons ==
    [][ \A n \in 1..MaxInflight, r \in Failures :
          request_done(n, r)
          => /\ returned'[1].requested
             /\ returned'[1].url = None
             /\ returned'[1].reason = ReasonOf(r) ]_vars

\* ---------------------------------------------------------------------------
\* The feature switch
\* ---------------------------------------------------------------------------

WithoutArtist ==
    { r \in Responses :
        /\ r.kind = "ok"
        /\ r.results # <<>>
        /\ \A i \in 1..Len(r.results) : r.results[i].artistName = <<>> }

ArtistMatches(found, artist) ==
    { i \in 1..Len(found) :
        /\ found[i].artistName # <<>>
        /\ \/ Contains(lower(artist), lower(found[i].artistName))
           \/ Contains(lower(found[i].artistName), lower(artist))
        /\ found[i].artworkUrl100 # <<>> }

\* For every lookup and every result list with such a candidate, the URL of
\* the first one, rewritten to the configured size
FirstByArtist ==
    [l \in Lookups |->
        [r \in Responses |->
            LET hits == ArtistMatches(r.results, l.artist)
            IN  IF r.kind = "ok" /\ hits # {}
                THEN <<HighRes(r.results[CHOOSE i \in hits : \A k \in hits : i <= k]
                                   .artworkUrl100)>>
                ELSE <<>>]]

\* C27: matching is decided by artist containment. When the answer holds a
\* candidate whose non-empty artist name contains or is contained in the query
\* artist, case-insensitively, and that has an artwork URL, the call returns
\* the URL of the first such candidate, rewritten to the configured size, with
\* reason "matched", and caches it, whatever the candidate's album name.
C27_MatchByArtist ==
    [][ \A n \in 1..MaxInflight, r \in Responses :
          ( /\ request_done(n, r)
            /\ FirstByArtist[Lookup(inflight[n].artist, inflight[n].album)][r] # <<>> )
          => LET l == Lookup(inflight[n].artist, inflight[n].album)
             IN  /\ returned'[1].reason = "matched"
                 /\ returned'[1].url = FirstByArtist[l][r][1]
                 /\ KeyOf[l] \in DOMAIN artwork_cache'
                 /\ artwork_cache'[KeyOf[l]] =
                        [url |-> FirstByArtist[l][r][1], reason |-> "matched"] ]_vars

\* For every lookup, the non-empty result lists none of whose candidates
\* matches, by artist containment or otherwise
WithoutMatch ==
    [l \in Lookups |->
        { r \in Responses :
            /\ r.kind = "ok"
            /\ r.results # <<>>
            /\ ArtistMatches(r.results, l.artist) = {}
            /\ Matching(r.results, l.artist, l.album) = {} }]

\* The call before this step ended with a request whose result list held no
\* match
EndedWithoutMatch ==
    /\ returned # <<>>
    /\ returned[1].requested
    /\ returned[1].url = None
    /\ returned[1].reason \notin {"not found", "timeout", "rate limited", "http error", "error"}

\* C28: a non-empty result list in which no candidate matches makes the call
\* return (None, "no match") and store that result under the key, and the call
\* that follows for the key returns reason "cached (no match)".
C28_NoMatchIsCached ==
    [][ /\ \A n \in 1..MaxInflight :
              \A r \in WithoutMatch[Lookup(inflight[n].artist, inflight[n].album)] :
                  request_done(n, r)
                  => LET l == Lookup(inflight[n].artist, inflight[n].album)
                     IN  /\ returned'[1].url = None
                         /\ returned'[1].reason = "no match"
                         /\ KeyOf[l] \in DOMAIN artwork_cache'
                         /\ artwork_cache'[KeyOf[l]] = [url |-> None, reason |-> "no match"]
        /\ \A l \in Lookups :
              (SecondCall(l) /\ EndedWithoutMatch)
              => /\ ReturnedAtOnce(l)
                 /\ returned'[1].url = None
                 /\ returned'[1].reason = "cached (no match)" ]_vars

\* ---------------------------------------------------------------------------
\* The queue prefetch
\* ---------------------------------------------------------------------------

\* The lookup of item i is the next one the event loop starts
NextLookup(i) ==
    /\ i \in 1..Len(lookups)
    /\ lookups[i].pc = "created"
    /\ \A j \in 1..(i - 1) : lookups[j].pc # "created"

\* The entry of item i describes queue item i
Describes(entry, item) ==
    /\ entry.artist = item.artist
    /\ entry.album = item.album
    /\ entry.sonos_url = item.sonos_url

\* The entry of an item is what its own lookup makes of it: untouched while
\* the lookup has not returned, then the URL and reason the lookup returned,
\* with the Sonos URL on display unless the lookup returned a URL; without
\* lookups, the feature being disabled, the entry says so
OwnLookupOnly(i) ==
    LET base == [Entry(queue[i]) EXCEPT !.reason = ""]
    IN  CASE lookups[i].pc \in {"created", "awaiting"} -> queue_items[i] = base
          [] lookups[i].pc = "done" /\ (queue[i].artist = <<>> \/ queue[i].album = <<>>) ->
                queue_items[i] = [base EXCEPT !.reason = "no metadata"]
          [] lookups[i].pc = "done" /\ lookups[i].url = None ->
                /\ queue_items[i] = [base EXCEPT !.reason = lookups[i].reason]
                /\ queue_items[i].display_url = queue[i].sonos_url
          [] lookups[i].pc = "done" /\ lookups[i].url # None ->
                /\ queue_items[i].itunes_url = lookups[i].url
                /\ queue_items[i].display_url = lookups[i].url
                /\ queue_items[i].has_itunes_match
                /\ queue_items[i].reason = lookups[i].reason
          [] OTHER -> queue_items[i] = [base EXCEPT !.reason = "disabled"]

C30_TitleNonEmpty ==
    /\ current_track # None => current_track[1].title # ""
    /\ \A k \in 1..Len(upd.invoked) :
          upd.invoked[k].track # None => upd.invoked[k].track[1].title # ""
    /\ last_arg # None => last_arg[1].title # ""

\* ---------------------------------------------------------------------------
\* The order of ticks
\* ---------------------------------------------------------------------------

\* The stage of polling loop t changes in this step
Enters(t, stage) == loops[t].pc # stage /\ loops'[t].pc = stage

\* C31: the ticks of one polling loop are strictly sequential. A loop begins
\* the adapter calls of a tick only when it is scheduled for the first time or
\* its sleep is over, calls update() only with the result of the poll of the
\* same tick, and sleeps only after that poll failed or that update returned
\* or failed: the loop has at most one update in flight and its updates are
\* issued in tick order.
C31_TicksSequential ==
    [][\A t \in TaskIds :
          /\ Enters(t, "poll") => loops[t].pc \in {"created", "sleep"}
          /\ Enters(t, "update") => loops[t].pc = "poll"
          /\ Enters(t, "sleep") => loops[t].pc \in {"poll", "update"}
          /\ loops[t].pc = "update" /\ ~Enters(t, "sleep") =>
                loops'[t].pc \in {"update", "cancelled"}]_vars

\* A loop is in the update of a later tick, after the sleep that followed a
\* failed tick
C31_Witness ==
    \E t \in TaskIds :
        /\ loops[t].pc = "update"
        /\ loops[t].recovered
        /\ ~loops[t].cancel

\* ---------------------------------------------------------------------------
\* The empty-poll counter
\* ---------------------------------------------------------------------------

\* C32: the counter invariant. Whenever no update() is running and the state is
\* Empty the empty-poll counter is 0, and an update() raises the counter only
\* when it is called with None while a track is held.
C32_CounterZeroWhenEmpty ==
    [][/\ (upd'.pc = "idle" /\ current_track' = None) => consecutive_none_count' = 0
       /\ consecutive_none_count' > consecutive_none_count =>
             /\ UpdateCalled
             /\ last_arg' = None
             /\ current_track # None]_vars

\* ---------------------------------------------------------------------------
\* Recovery of the adapters
\* ---------------------------------------------------------------------------

\* The query of adapter a made by polling task t ends in the handler of a
\* failure in this step
QueryFails(t, a) ==
    /\ calls[t][a] \in {"track info", "transport info", "await"}
    /\ calls'[t][a] = "failed"

\* The Sonos adapter as the handler of a failed query leaves it
Forgotten(s) == s.device = None /\ s.room_name = None /\ ~s.discovery_attempted

\* C33: source error recovery. A Sonos query that fails while a device is held
\* ends with the adapter reset (no device, no room name, discovery not
\* attempted), so that the next _get_device runs connection and discovery
\* again and takes what it finds; a Spotify query that fails ends with no
\* client held, so that the next call builds one.
C33_SourceErrorRecovery ==
    [][\A t \in TaskIds :
          /\ QueryFails(t, "sonos") =>
                /\ Forgotten(sonos')
                /\ get_device(sonos', "found").value = Speaker
                /\ \A found \in Discoveries :
                      get_device(sonos', found).state.discovery_attempted
          /\ QueryFails(t, "spotify") =>
                /\ spotify'.client = None
                /\ get_client(spotify', TRUE).value = Client
          /\ calls'[t].sonos = "failed" =>
                calls[t].sonos \in {"track info", "transport info", "failed"}
          /\ calls'[t].spotify = "failed" => calls[t].spotify \in {"await", "failed"}]_vars

\* After a tick in which both queries failed the Sonos adapter has found its
\* speaker again
C33_Witness ==
    \E t \in TaskIds :
        /\ calls[t].sonos = "failed"
        /\ calls[t].spotify = "failed"
        /\ spotify.client = None
        /\ sonos.device = Speaker
        /\ sonos.discovery_attempted

\* ---------------------------------------------------------------------------
\* Sonos discovery
\* ---------------------------------------------------------------------------

\* Discovery was attempted and left the adapter without a device
NothingFound == sonos.device = None /\ sonos.discovery_attempted

\* C40: discovery is attempted at most once. Once discovery was attempted and
\* found no device the adapter stays as it is: no later step attempts
\* discovery again or makes the adapter available, and no polling task begins
\* a query of the device.
C40_DiscoveryAttemptedOnce ==
    [][NothingFound =>
          /\ sonos' = sonos
          /\ \A found \in Discoveries : get_device(sonos', found).value = None
          /\ \A t \in TaskIds :
                calls'[t].sonos = "track info" => calls[t].sonos = "track info"]_vars

\* ---------------------------------------------------------------------------
\* Suppressed updates
\* ---------------------------------------------------------------------------

\* The update() called in this step is one of the suppressed cases: Empty on
\* Empty, a snapshot with the identity of the held one, or a None that leaves
\* the counter below the threshold
Suppressed ==
    /\ UpdateCalled
    /\ \/ last_arg' = None /\ current_track = None
       \/ /\ last_arg' # None
          /\ current_track # None
          /\ SameIdentity(last_arg'[1], current_track[1])
       \/ /\ last_arg' = None
          /\ current_track # None
          /\ consecutive_none_count + 1 < none_threshold

\* C34: a suppressed update changes nothing observable. It starts no
\* notification round and leaves current_track and last_updated as they were;
\* a snapshot equal to the held one with a newer art URL, position or
\* timestamp does not replace the held snapshot.
C34_SuppressedChangesNothing ==
    [][Suppressed =>
          /\ upd' = IdleUpd
          /\ current_track' = current_track
          /\ last_updated' = last_updated]_vars

\* A snapshot equal to the held one but captured later was passed at a later
\* time, and the store still holds the first one with its time of acceptance
C34_Witness ==
    /\ upd = IdleUpd
    /\ current_track # None
    /\ last_arg # None
    /\ SameIdentity(last_arg[1], current_track[1])
    /\ last_arg[1].timestamp > current_track[1].timestamp
    /\ last_updated < now

\* ---------------------------------------------------------------------------
\* What a subscriber receives
\* ---------------------------------------------------------------------------

\* The stream's callback is on the subscriber list once at most
RegisteredOnce ==
    Cardinality({ i \in 1..Len(subscribers) : subscribers[i] = OnUpdate }) <= 1

\* The notification round in flight has invoked all its callbacks
RoundComplete == upd.pc = "notify" /\ Len(upd.invoked) = Len(upd.round)

\* Semantic equality of two payloads
SamePayload(a, b) ==
    \/ a = None /\ b = None
    \/ a # None /\ b # None /\ SameIdentity(a[1], b[1])

\* C35: a subscriber registered once and never removed receives exactly the
\* values that current_track takes. When an update() that notified it is about
\* to return or has returned, the most recent payload it received is
\* current_track; every change of current_track made while it is registered
\* reaches it; and no two consecutive payloads are semantically equal.
C35_PayloadsFollowState ==
    RegisteredOnce =>
        /\ (upd.pc = "idle" /\ sse_queue # <<>>) =>
              sse_queue[Len(sse_queue)] = current_track
        /\ (RoundComplete /\ InList(upd.round, OnUpdate)) =>
              /\ sse_queue # <<>>
              /\ sse_queue[Len(sse_queue)] = current_track
        /\ \A i \in 1..(Len(sse_queue) - 1) :
              ~SamePayload(sse_queue[i], sse_queue[i + 1])

\* The stream has received a track, None after the grace period, and a track
\* again, and the store holds the last of them
C35_Witness ==
    /\ RegisteredOnce
    /\ upd.pc = "idle"
    /\ Len(sse_queue) = 3
    /\ sse_queue[1] # None
    /\ sse_queue[2] = None
    /\ sse_queue[3] # None
    /\ sse_queue[3] = current_track
    /\ Len(subscribers) = 2

\* ---------------------------------------------------------------------------
\* Transient failures
\* ---------------------------------------------------------------------------
Transient == {"timeout", "http error", "error"}

Stored == {"matched", "not found", "no album match"}

\* The step is the return of the call in slot n, whose request ended with
\* one of the given reasons
Ends(n, reasons) ==
    /\ inflight[n].busy
    /\ ~inflight'[n].busy
    /\ returned' # <<>>
    /\ returned'[1].requested
    /\ returned'[1].reason \in reasons

\* The step is a call get_itunes_artwork(l), made with the feature enabled,
\* that follows, with no other return in between, a call for an equal key
\* that ended with a transient failure
CallAfterTransient(l) ==
    /\ Called(l)
    /\ prefer_itunes
    /\ returned # <<>>
    /\ returned[1].requested
    /\ returned[1].reason \in Transient
    /\ Normalized[Lookup(returned[1].artist, returned[1].album)] = Normalized[l]

\* C36 as stated: a call that ends with "timeout", "http error" or "error"
\* leaves cache and gate unchanged, the next call for the same key issues a
\* request, and only "matched", "not found" and the no-match outcome write a
\* cache entry.
C36_TransientThenRequest ==
    [][ /\ \A n \in 1..MaxInflight :
              Ends(n, Transient) =>
                 /\ artwork_cache' = artwork_cache
                 /\ rate_limit_until' = rate_limit_until
        /\ \A l \in Lookups : CallAfterTransient(l) => RequestIssued(l)
        /\ artwork_cache' # artwork_cache =>
              \E n \in 1..MaxInflight : Ends(n, Stored) ]_vars

\* C36, amended: the same, with the next call issuing its request when the
\* gate is open and the key has no entry at that moment: a concurrent lookup
\* may have closed the gate or stored the key.
C36_TransientNotCached ==
    [][ /\ \A n \in 1..MaxInflight :
              Ends(n, Transient) =>
                 /\ artwork_cache' = artwork_cache
                 /\ rate_limit_until' = rate_limit_until
        /\ \A l \in Lookups :
              ( /\ CallAfterTransient(l)
                /\ ~GateClosed
                /\ KeyOf[l] \notin DOMAIN artwork_cache )
              => RequestIssued(l)
        /\ artwork_cache' # artwork_cache =>
              \E n \in 1..MaxInflight : Ends(n, Stored) ]_vars

\* A request timed out, nothing was stored and the gate is open, and the next
\* call for the key has its request under way
C36_Witness ==
    /\ returned # <<>>
    /\ returned[1].requested
    /\ returned[1].reason = "timeout"
    /\ returned[1].artist = <<"A">>
    /\ returned[1].album = <<"B">>
    /\ artwork_cache = <<>>
    /\ rate_limit_until = 0
    /\ \E n \in 1..MaxInflight :
          inflight[n] = [artist |-> <<" ", "a">>, album |-> <<"b", " ">>, busy |-> TRUE]

\* ---------------------------------------------------------------------------
\* Concurrent lookups of one key
\* ---------------------------------------------------------------------------

\* Items i and j of the batch are looked up under the same cache key
SameKey(i, j) ==
    /\ queue_items[i].artist # <<>> /\ queue_items[i].album # <<>>
    /\ queue_items[j].artist # <<>> /\ queue_items[j].album # <<>>
    /\ KeyOf[Lookup(queue_items[i].artist, queue_items[i].album)]
          = KeyOf[Lookup(queue_items[j].artist, queue_items[j].album)]

\* C37: no duplicate lookups in flight. Of the lookups of one batch that ask
\* about the same key at most one has a request under way, and when they have
\* returned they have returned the same URL.
C37_OneRequestPerKey ==
    \A i \in 1..Len(lookups) : \A j \in 1..Len(lookups) :
        (i # j /\ queue_pc = "gather" /\ SameKey(i, j)) =>
            /\ ~(lookups[i].pc = "awaiting" /\ lookups[j].pc = "awaiting")
            /\ (lookups[i].pc = "done" /\ lookups[j].pc = "done") =>
                  lookups[i].url = lookups[j].url

\* ---------------------------------------------------------------------------
\* The gate over time
\* ---------------------------------------------------------------------------

\* C38: the gate moves only when a request receives 429, to that moment plus
\* the backoff window, and it never moves back, whatever the order in which
\* the requests in flight are answered. A request ending in any other way, a
\* call answered from the cache or refused, and a change of the settings leave
\* it where it is.
C38_GateOnlyAdvances ==
    [][ /\ rate_limit_until' >= rate_limit_until
        /\ rate_limit_until' # rate_limit_until =>
              /\ \E n \in 1..MaxInflight : Ends(n, {"rate limited"})
              /\ rate_limit_until' = art_now + backoff
        /\ (\E n \in 1..MaxInflight : Ends(n, Transient \cup Stored)) =>
              rate_limit_until' = rate_limit_until
        /\ art_now' >= art_now ]_vars

\* A second 429 arrived half a window after the first one, while the gate
\* was closed, and moved the gate on
C38_Witness ==
    /\ art_now = backoff \div 2
    /\ rate_limit_until = art_now + backoff
    /\ returned # <<>>
    /\ returned[1].requested
    /\ returned[1].reason = "rate limited"
    /\ \A n \in 1..MaxInflight : ~inflight[n].busy

\* ---------------------------------------------------------------------------
\* The empty cleaned album
\* ---------------------------------------------------------------------------

\* The cleaned album of every lookup, computed once
CleanedOf == [l \in Lookups |-> clean_album_name(l.album)]

\* The album of the lookup is nothing but edition qualifiers, and there is an
\* artist
EmptyAlbum(l) == l.artist # <<>> /\ CleanedOf[l] = <<>>

\* The lookup has neither an artist nor a cleaned album
EmptyBoth(l) == l.artist = <<>> /\ CleanedOf[l] = <<>>

\* The candidates of a result list that have an artist name and an album
\* name, match by artist containment and carry an artwork URL
NamedArtistMatches(found, artist) ==
    { i \in ArtistMatches(found, artist) : found[i].collectionName # <<>> }

\* For every lookup and every answer, the URL of the first such candidate,
\* rewritten to the configured size
FirstNamedByArtist ==
    [l \in Lookups |->
        [r \in Responses |->
            LET hits == NamedArtistMatches(r.results, l.artist)
            IN  IF r.kind = "ok" /\ hits # {}
                THEN <<HighRes(r.results[CHOOSE i \in hits : \A k \in hits : i <= k]
                                   .artworkUrl100)>>
                ELSE <<>>]]

\* For every lookup, the answers that hold such a candidate
NamedAnswers ==
    [l \in Lookups |-> { r \in Responses : FirstNamedByArtist[l][r] # <<>> }]

\* The step is the return of a call for an album that cleans to nothing: the
\* first candidate with both names that matches by artist and has artwork is
\* returned as "matched" and cached, whatever its album name
EmptyAlbumMatchesByArtist ==
    \A n \in 1..MaxInflight :
        ( /\ inflight[n].busy
          /\ ~inflight'[n].busy
          /\ EmptyAlbum(Lookup(inflight[n].artist, inflight[n].album)) )
        => LET l == Lookup(inflight[n].artist, inflight[n].album)
           IN  \A r \in NamedAnswers[l] :
                  request_done(n, r)
                  => LET url == FirstNamedByArtist[l][r][1]
                     IN  /\ returned'[1].reason = "matched"
                         /\ returned'[1].url = url
                         /\ KeyOf[l] \in DOMAIN artwork_cache'
                         /\ artwork_cache'[KeyOf[l]] = [url |-> url, reason |-> "matched"]

\* The step returns (None, "no query") for l, with no request and no cache
\* write
NoQuery(l) ==
    /\ ReturnedAtOnce(l)
    /\ returned'[1].url = None
    /\ returned'[1].reason = "no query"
    /\ inflight' = inflight
    /\ artwork_cache' = artwork_cache

\* The lookup of the call that returned last
Asked == Lookup(returned[1].artist, returned[1].album)

\* The step is a call, made with the feature enabled, for a lookup with
\* neither artist nor cleaned album, that returns without a request
EmptyBothAnswered ==
    /\ prefer_itunes
    /\ returned' # returned
    /\ ~returned'[1].requested
    /\ EmptyBoth(Asked')

\* No step issues a request for a lookup with neither artist nor cleaned album
EmptyBothNeverRequested ==
    \A n \in 1..MaxInflight :
        (~inflight[n].busy /\ inflight'[n].busy)
        => ~EmptyBoth(Lookup(inflight'[n].artist, inflight'[n].album))

\* C39 as stated: when the cleaned album is empty and the artist is not, the
\* album test holds for every candidate with an album name, and the first
\* candidate whose artist matches and that has an artwork URL is returned as
\* "matched" and cached; when artist and cleaned album are both empty, the
\* call returns (None, "no query") with no request and no cache write.
C39_EmptyAlbumBoundary ==
    [][ /\ EmptyAlbumMatchesByArtist
        /\ EmptyBothNeverRequested
        /\ EmptyBothAnswered => NoQuery(Asked') ]_vars

\* C39, amended: the same, with (None, "no query") returned when the gate is
\* open; while the gate is closed the call is refused with "rate limited"
\* before the query is built.
C39_EmptyAlbumMatchesAny ==
    [][ /\ EmptyAlbumMatchesByArtist
        /\ EmptyBothNeverRequested
        /\ EmptyBothAnswered =>
              IF GateClosed THEN RefusedAtGate(Asked') ELSE NoQuery(Asked') ]_vars

\* The lookup of ("A", "(Deluxe)") was answered with a candidate of artist
\* "a" and album "c" and ended "matched", and the result is cached
C39_Witness ==
    /\ \E l \in Lookups : EmptyBoth(l)
    /\ returned # <<>>
    /\ returned[1].requested
    /\ EmptyAlbum(Asked)
    /\ returned[1].reason = "matched"
    /\ returned[1].url = HighRes(ArtUrl)
    /\ KeyOf[Asked] \in DOMAIN artwork_cache

====
